---- MODULE Spec2Model ----
(***************************************************************************)
(* Model of the coordination layer of telepathy-glib / telepathy-logger:   *)
(*   - the channel observer's dispatch barrier (observer.c),               *)
(*   - the connection manager introspection state machine                  *)
(*     (connection-manager.c).                                             *)
(* Every handler of the C code is one action; helpers of the code are      *)
(* operators with the code's names.                                        *)
(***************************************************************************)
EXTENDS Integers, Sequences, FiniteSets, TLC

(* ------------------------------------------------------------------------ *)
(* Bounds                                                                   *)
(* ------------------------------------------------------------------------ *)
\* number of observe_channels invocations explored
MaxCalls == 1
\* maximum length of the channel list of one invocation
MaxChannels == 3
\* tp_proxy_prepare_async calls explored on the text channel
MaxPrepares == 3
\* ObserveChannels calls the observer test makes
MaxObserveCalls == 3
\* messages the text channel's service receives
MaxTextMessages == 2

\* the value a guint wraps to below 0; G_MAXUINT is 2^32 - 1, which is beyond
\* the integers TLC represents, so the largest one TLC has stands for it
G_MAXUINT == 2147483647

NULL == "NULL"
\* an absent entry of the channel map (channels are <<invocation, index>>)
NoChannel == <<0, 0>>
Batches == 1..MaxCalls

\* Object paths of channels.  The channels of one list are distinct objects of
\* one connection, so the i-th channel of a list has the i-th path; lists of
\* different invocations share paths (the same channel observed again).
Paths == 1..MaxChannels

\* one element of the a(oa{sv}) channel list: the object path and whether the
\* channel factory can build a TplChannel for its channel type
ChannelDetails == [path : Paths, creatable : BOOLEAN]

ChannelLists ==
  UNION {{[i \in 1..n |-> [path |-> i, creatable |-> f[i]]] :
             f \in [1..n -> BOOLEAN]} : n \in 0..MaxChannels}

VARIABLES
  ncalls,          \* number of observe_channels invocations so far
  calls,           \* per invocation: its arguments (the channel list as far as
                   \* the code reads it) and the exit it took
  observing_ctx,   \* per invocation: the ObservingContext (alloc, chan_n, dbus_ctx)
  prep,            \* per invocation: state of each channel's preparation
  replies,         \* per invocation: replies sent on its DBusGMethodInvocation
  channel_map,     \* TplObserverPriv.channel_map: path -> registered channel
  reg_log,         \* channels handed to tpl_observer_register_channel so far
  registry_out,    \* what the register or unregister call that ran last
                   \* returned and notified
  cm,              \* one TpConnectionManager, the bus calls it has in flight and
                   \* what its handler that ran last emitted
  list_op,         \* one tp_list_connection_managers_async operation: its
                   \* _ListContext and its GSimpleAsyncResult
  debug_sender,    \* the TpDebugSender, and what its handler that ran last
                   \* emitted or returned
  text_channel,    \* one TpTextChannel: its readiness, its waiters, its
                   \* pending messages and one SetChatState operation
  test             \* the observer test of tests/dbus/base-client.c

obs_vars ==
  <<ncalls, calls, observing_ctx, prep, replies, channel_map, reg_log,
    registry_out>>

vars == <<obs_vars, cm, list_op, debug_sender, text_channel, test>>

(* ------------------------------------------------------------------------ *)
(* observer.c                                                              *)
(* ------------------------------------------------------------------------ *)
NoCall == [account |-> NULL, connection |-> NULL, no_channels |-> FALSE,
           channels |-> <<>>, dbus_context |-> FALSE,
           globally_enabled |-> TRUE, account_ignored |-> FALSE,
           exit |-> "none", proxies |-> FALSE]
NoCtx == [alloc |-> "none", chan_n |-> 0, dbus_ctx |-> FALSE]

TPL_STR_EMPTY(s) == s = ""

GateRejects_globalOnly(globally_enabled, account_ignored) ==
  ~globally_enabled

\* the two policy gates of observe_channels: logging globally disabled, or
\* the account ignored
GateRejects(globally_enabled, account_ignored) ==
  (~globally_enabled) \/ account_ignored

\* the exit observe_channels takes for its arguments and environment
ObserveExit(account, connection, globally_enabled, account_ignored, proxies_ok) ==
  IF TPL_STR_EMPTY(account) \/ TPL_STR_EMPTY(connection) THEN "return_if_fail"
  ELSE IF GateRejects(globally_enabled, account_ignored) THEN "gate"
  ELSE IF ~proxies_ok THEN "proxy_error"
  ELSE "dispatched"

ErrorLabelReplies_unconditional(dbus_context) == <<"return">>

\* the error: label of observe_channels
ErrorLabelReplies(dbus_context) ==
  IF dbus_context THEN <<"return">> ELSE <<>>

\* g_slice_new0 (ObservingContext) and its three assignments
NewObservingContext(channels, dbus_context) ==
  [alloc |-> "live", chan_n |-> Len(channels), dbus_ctx |-> dbus_context]

\* the for loop over channels: a channel the factory cannot build is skipped
\* with continue, the others get tpl_channel_call_when_ready
StartPreparations(channels) ==
  [i \in 1..Len(channels) |->
     IF channels[i].creatable THEN "pending" ELSE "nocreate"]

tpl_observer_observe_channels(account, connection, channels, dbus_context, globally_enabled, account_ignored, proxies_ok) ==
  /\ ncalls < MaxCalls
  /\ LET b == ncalls + 1
         exit == ObserveExit(account, connection, globally_enabled,
                             account_ignored, proxies_ok)
     IN /\ ncalls' = b
        /\ calls' = [calls EXCEPT ![b] =
                       [account |-> account, connection |-> connection,
                        no_channels |-> (Len(channels) = 0),
                        channels |-> IF exit = "dispatched" THEN channels ELSE <<>>,
                        dbus_context |-> dbus_context,
                        globally_enabled |-> globally_enabled,
                        account_ignored |-> account_ignored, exit |-> exit,
                        proxies |-> exit \in {"proxy_error", "dispatched"}]]
        /\ observing_ctx' = [observing_ctx EXCEPT ![b] =
                       IF exit = "dispatched"
                       THEN NewObservingContext(channels, dbus_context)
                       ELSE NoCtx]
        /\ prep' = [prep EXCEPT ![b] =
                       IF exit = "dispatched" THEN StartPreparations(channels)
                       ELSE <<>>]
        /\ replies' = [replies EXCEPT ![b] =
                       IF exit \in {"gate", "proxy_error"}
                       THEN ErrorLabelReplies(dbus_context) ELSE <<>>]
        /\ UNCHANGED <<channel_map, reg_log, registry_out, cm, list_op, debug_sender,
                     text_channel, test>>

register_channel_noInsert(map, path, chan) == map

\* g_hash_table_insert (glob_map, key, g_object_ref (channel))
tpl_observer_register_channel(map, path, chan) ==
  [map EXCEPT ![path] = chan]

\* no register or unregister call has run yet
NoRegistryOut == [op |-> "none", path |-> 0, ret |-> FALSE, notified |-> 0]

\* tpl_observer_register_channel: its return value and its g_object_notify
RegisterOut(path) ==
  [op |-> "register", path |-> path, ret |-> TRUE, notified |-> 1]

tpl_observer_unregister_channel_alwaysNotify(map, path) ==
  LET retval == map[path] # NoChannel
  IN [map |-> [map EXCEPT ![path] = NoChannel],
      out |-> [op |-> "unregister", path |-> path, ret |-> retval,
               notified |-> 1]]

\* retval = g_hash_table_remove (glob_map, key), then the notification
tpl_observer_unregister_channel(map, path) ==
  LET retval == map[path] # NoChannel
  IN [map |-> [map EXCEPT ![path] = NoChannel],
      out |-> [op |-> "unregister", path |-> path, ret |-> retval,
               notified |-> IF retval THEN 1 ELSE 0]]

\* observing_ctx->chan_n -= 1 on a guint
DecrementChanN(n) == IF n = 0 THEN G_MAXUINT ELSE n - 1

BatchDone_offByOne(n) == n <= 1

\* the test that ends the batch in got_tpl_channel_text_ready_cb
BatchDone(n) == n = 0

got_tpl_channel_text_ready_cb(b, i, success) ==
  /\ b \in 1..ncalls
  /\ i \in 1..Len(prep[b])
  /\ prep[b][i] = "pending"
  /\ LET ctx == observing_ctx[b]
         n == DecrementChanN(ctx.chan_n)
         path == calls[b].channels[i].path
     IN /\ prep' = [prep EXCEPT ![b][i] = IF success THEN "ok" ELSE "failed"]
        /\ channel_map' = IF success
                          THEN tpl_observer_register_channel(channel_map, path, <<b, i>>)
                          ELSE channel_map
        /\ reg_log' = IF success THEN reg_log \cup {<<b, i>>} ELSE reg_log
        /\ registry_out' = IF success THEN RegisterOut(path) ELSE registry_out
        /\ observing_ctx' = [observing_ctx EXCEPT ![b] =
                               [ctx EXCEPT !.chan_n = n,
                                           !.alloc = IF BatchDone(n) THEN "freed" ELSE "live"]]
        /\ replies' = [replies EXCEPT ![b] =
                               IF BatchDone(n) /\ ctx.dbus_ctx
                               THEN Append(@, "return") ELSE @]
        /\ UNCHANGED <<ncalls, calls, cm, list_op, debug_sender, text_channel, test>>

\* The channel lists worth distinguishing for an invocation: every list when
\* the loop over the channels is reached; otherwise the code never reads the
\* list, and an empty and a non-empty one stand for all of them.
ListsFor(exit) ==
  IF exit = "dispatched" THEN ChannelLists
  ELSE {l \in ChannelLists : Len(l) <= 1 /\ \A i \in 1..Len(l) : l[i].creatable}

ObserveChannels ==
  \E account \in {"", "acct"}, connection \in {"", "conn"},
     dbus_context \in BOOLEAN, globally_enabled \in BOOLEAN,
     account_ignored \in BOOLEAN, proxies_ok \in BOOLEAN :
    \E channels \in ListsFor(ObserveExit(account, connection, globally_enabled,
                                         account_ignored, proxies_ok)) :
       tpl_observer_observe_channels(account, connection, channels, dbus_context,
                                     globally_enabled, account_ignored, proxies_ok)

ChannelReady ==
  \E b \in Batches, i \in 1..MaxChannels, success \in BOOLEAN :
       got_tpl_channel_text_ready_cb(b, i, success)

\* somebody calls tpl_observer_unregister_channel with a channel of that path
UnregisterChannel ==
  \E path \in Paths :
    LET r == tpl_observer_unregister_channel(channel_map, path)
    IN /\ channel_map' = r.map
       /\ registry_out' = r.out
       /\ UNCHANGED <<ncalls, calls, observing_ctx, prep, replies, reg_log, cm,
                      list_op, debug_sender, text_channel, test>>

InitObs ==
  /\ ncalls = 0
  /\ calls = [b \in Batches |-> NoCall]
  /\ observing_ctx = [b \in Batches |-> NoCtx]
  /\ prep = [b \in Batches |-> <<>>]
  /\ replies = [b \in Batches |-> <<>>]
  /\ channel_map = [p \in Paths |-> NoChannel]
  /\ reg_log = {}
  /\ registry_out = NoRegistryOut

NextObs ==
  \/ ObserveChannels
  \/ ChannelReady

\* channels registered by the invocations that prepare all of their channels,
\* and unregistered
NextRegistry ==
  \/ \E channels \in {l \in ChannelLists : \A i \in 1..Len(l) : l[i].creatable} :
       tpl_observer_observe_channels("acct", "conn", channels, TRUE, TRUE,
                                     FALSE, TRUE)
  \/ ChannelReady
  \/ UnregisterChannel

(* ------------------------------------------------------------------------ *)
(* connection-manager.c                                                     *)
(* ------------------------------------------------------------------------ *)
TP_CM_INFO_SOURCE_NONE == 0
TP_CM_INFO_SOURCE_FILE == 1
TP_CM_INFO_SOURCE_LIVE == 2

InfoSourceName(i) ==
  CASE i = TP_CM_INFO_SOURCE_NONE -> "NONE"
    [] i = TP_CM_INFO_SOURCE_FILE -> "FILE"
    [] OTHER -> "LIVE"

\* a GHashTable * of protocols: NULL, or a table holding a set of names
NoTable == <<>>
Table(names) == <<names>>

\* a const GError *: NULL or the error
NoError == "no error"
NAME_OWNER_LOST == "TP_DBUS_ERROR_NAME_OWNER_LOST"
GETALL_FAILED == "GetAll failed"

\* Protocol names are strings, modelled as sequences of characters of three
\* kinds: ASCII letters, ASCII digits, and the hyphen.
g_ascii_isalpha(c) == c \in {"i", "j"}
g_ascii_isalnum(c) == g_ascii_isalpha(c) \/ c \in {"9"}

tp_connection_manager_check_valid_protocol_name(name) ==
  /\ name # <<>>
  /\ g_ascii_isalpha(name[1])
  /\ \A k \in 1..Len(name) : g_ascii_isalnum(name[k]) \/ name[k] = "-"

\* what a .manager file holds: the protocols of its groups and the
\* Interfaces of its ConnectionManager group
FileProtocols == {<<"i", "-", "9">>}
FileInterfaces == {"iface.from.file"}
\* the values the manager-file property and the lookup in the XDG directories
\* can give: no file, the empty string, a file that parses, one that does not
GoodFile == "/good.manager"
BadFile == "/bad.manager"
ManagerFileValues == {NULL, "", GoodFile, BadFile}
FoundFiles == {NULL, GoodFile, BadFile}

\* what a successful GetAll carries: Interfaces, and Protocols (or no such
\* entry), whose names may be invalid
LiveInterfaces == {"iface.from.bus"}
LiveNames == {<<"j">>, <<"9", "j">>}
GetAllReplies ==
  {[error |-> GETALL_FAILED, protocols |-> NoTable]}
    \cup {[error |-> NoError, protocols |-> t] :
             t \in {NoTable} \cup {Table(n) : n \in SUBSET LiveNames}}

\* new_owner of a name-owner notification: "" or a unique name

\* the object after g_object_new: tp_connection_manager_init, the construct
\* property manager-file, and the constructor
NewCM(manager_file, found) ==
  [info_source |-> TP_CM_INFO_SOURCE_NONE,
   running |-> FALSE,
   always_introspect |-> FALSE,
   interfaces |-> {},
   manager_file |-> IF manager_file = NULL THEN found ELSE manager_file,
   manager_file_read_idle_id |-> FALSE,
   introspect_idle_id |-> FALSE,
   protocol_objects |-> NoTable,
   found_protocols |-> NoTable,
   introspection_step |-> "INTROSPECT_IDLE",
   introspection_call |-> FALSE,
   name_known |-> FALSE,
   want_activation |-> FALSE,
   bus_calls |-> 0,          \* GetAll calls neither answered nor cancelled
   core_prepared |-> FALSE,  \* core has been reported prepared
   emitted |-> <<>>,         \* signals and reports of the handler that ran last
   ended |-> "none",         \* how that handler ended an introspection, if it did
   handler |-> <<"constructor">>,  \* the handler that ran last, with its input
   ret |-> "none",           \* what that handler returned, if it returns a value
   activating |-> FALSE,     \* activate returned TRUE; no activated/exited since
   aborted |-> ""]           \* the g_assert that failed, if one did

\* a handler starts with nothing emitted yet
Begin(s, handler) ==
  [s EXCEPT !.emitted = <<>>, !.ended = "none", !.ret = "none",
            !.handler = handler]
Emit(s, sig, arg) ==
  [s EXCEPT !.emitted = Append(@, <<sig, arg>>),
            !.activating = @ /\ sig \notin {"activated", "exited"}]
Abort(s, assertion) == [s EXCEPT !.aborted = assertion]

SuppressedError_never(info_source, error) == error

SuppressedError_always(info_source, error) == NoError

\* "we have info already, so suppress any error and return the old info"
SuppressedError(info_source, error) ==
  IF info_source > TP_CM_INFO_SOURCE_NONE THEN NoError ELSE error

tp_connection_manager_ready_or_failed(s, error) ==
  LET e == SuppressedError(s.info_source, error)
  IN IF s.info_source <= TP_CM_INFO_SOURCE_NONE /\ error = NoError
     THEN Abort(s, "ready_or_failed: error != NULL")
     ELSE IF e = NoError
          THEN [Emit(s, "core-prepared", "") EXCEPT !.core_prepared = TRUE]
          ELSE Emit(s, "core-failed", e)

tp_connection_manager_end_introspection_noCancel(s, error) ==
  LET s1 == [s EXCEPT !.introspection_step = "INTROSPECT_IDLE",
                      !.introspection_call = FALSE,
                      !.found_protocols = NoTable,
                      !.ended = IF error = NoError THEN "success" ELSE error]
  IN tp_connection_manager_ready_or_failed(
       Emit(s1, "got-info", InfoSourceName(s1.info_source)), error)

tp_connection_manager_end_introspection(s, error) ==
  LET s1 == [s EXCEPT !.introspection_step = "INTROSPECT_IDLE",
                      \* tp_proxy_pending_call_cancel
                      !.bus_calls = IF s.introspection_call THEN @ - 1 ELSE @,
                      !.introspection_call = FALSE,
                      !.found_protocols = NoTable,
                      !.ended = IF error = NoError THEN "success" ELSE error]
  IN tp_connection_manager_ready_or_failed(
       Emit(s1, "got-info", InfoSourceName(s1.info_source)), error)

SwapProtocols_merge(s) ==
  [s EXCEPT !.protocol_objects =
              IF s.found_protocols = NoTable THEN s.protocol_objects
              ELSE IF s.protocol_objects = NoTable THEN s.found_protocols
              ELSE Table(s.protocol_objects[1] \cup s.found_protocols[1]),
            !.found_protocols = NoTable]

\* "swap found_protocols and protocol_objects, so we'll free the old table"
SwapProtocols(s) ==
  [s EXCEPT !.protocol_objects = s.found_protocols,
            !.found_protocols = s.protocol_objects]

tp_connection_manager_continue_introspection(s) ==
  IF s.introspection_step = "INTROSPECT_IDLE"
  THEN [s EXCEPT !.introspection_step = "INTROSPECT_GETTING_PROPERTIES",
                 !.introspection_call = TRUE,
                 !.bus_calls = @ + 1]
  ELSE LET s1 == [SwapProtocols(s) EXCEPT
                    !.info_source = TP_CM_INFO_SOURCE_LIVE]
           s2 == IF s.info_source # TP_CM_INFO_SOURCE_LIVE
                 THEN Emit(s1, "notify::info-source", "LIVE") ELSE s1
           s3 == tp_connection_manager_end_introspection(s2, NoError)
       IN IF s3.aborted = "" /\ s3.introspection_step # "INTROSPECT_IDLE"
          THEN Abort(s3, "continue_introspection: step == INTROSPECT_IDLE")
          ELSE s3

tp_connection_manager_get_all_cb(s, reply) ==
  IF s.introspection_step # "INTROSPECT_GETTING_PROPERTIES"
  THEN Abort(s, "get_all_cb: step == INTROSPECT_GETTING_PROPERTIES")
  ELSE IF ~s.introspection_call
  THEN Abort(s, "get_all_cb: introspection_call != NULL")
  ELSE
    LET s1 == [s EXCEPT !.introspection_call = FALSE]
    IN IF reply.error = NoError
       THEN LET s2 == [s1 EXCEPT !.interfaces = @ \cup LiveInterfaces]
            IN IF reply.protocols = NoTable
               THEN tp_connection_manager_continue_introspection(s2)
               ELSE IF s2.found_protocols # NoTable
               THEN Abort(s2, "get_all_cb: found_protocols == NULL")
               ELSE tp_connection_manager_continue_introspection(
                      [s2 EXCEPT !.found_protocols =
                         Table({n \in reply.protocols[1] :
                                  tp_connection_manager_check_valid_protocol_name(n)})])
       ELSE tp_connection_manager_end_introspection(
              IF ~s1.running THEN Emit(s1, "exited", "") ELSE s1, reply.error)

\* the names of the committed protocols, or the g_assert that fails
tp_connection_manager_dup_protocol_names(s) ==
  IF s.info_source = TP_CM_INFO_SOURCE_NONE
  THEN [aborted |-> "", ret |-> NoTable]
  ELSE IF s.protocol_objects = NoTable
  THEN [aborted |-> "dup_protocol_names: protocol_objects != NULL", ret |-> NoTable]
  ELSE [aborted |-> "", ret |-> s.protocol_objects]

introspection_in_progress_never(s) == FALSE

introspection_in_progress(s) ==
  s.introspection_call \/ s.found_protocols # NoTable

tp_connection_manager_idle_introspect_onlyIfNone(s) ==
  LET s1 == IF /\ ~introspection_in_progress(s)
               /\ s.info_source = TP_CM_INFO_SOURCE_NONE
            THEN tp_connection_manager_continue_introspection(s)
            ELSE s
  IN [s1 EXCEPT !.introspect_idle_id = FALSE]

tp_connection_manager_idle_introspect(s) ==
  LET s1 == IF /\ ~introspection_in_progress(s)
               /\ (s.always_introspect \/ s.info_source = TP_CM_INFO_SOURCE_NONE)
            THEN tp_connection_manager_continue_introspection(s)
            ELSE s
  IN [s1 EXCEPT !.introspect_idle_id = FALSE]

OwnerLostBranch_alwaysExited(s) ==
  LET s1 == [s EXCEPT !.running = FALSE]
      s2 == IF introspection_in_progress(s1)
            THEN tp_connection_manager_end_introspection(s1, NAME_OWNER_LOST)
            ELSE s1
  IN IF s2.aborted = "" THEN Emit(s2, "exited", "") ELSE s2

\* name_owner_changed_cb, the branch new_owner[0] == '\0'
OwnerLostBranch(s) ==
  LET s1 == [s EXCEPT !.running = FALSE]
      s2 == IF introspection_in_progress(s1)
            THEN tp_connection_manager_end_introspection(s1, NAME_OWNER_LOST)
            ELSE s1
  IN IF s2.aborted = "" /\ s2.name_known THEN Emit(s2, "exited", "") ELSE s2

\* name_owner_changed_cb, the block "if (!self->priv->name_known)"
NameKnownBlock(s) ==
  IF s.aborted # "" \/ s.name_known THEN s
  ELSE IF s.manager_file_read_idle_id
  THEN Abort(s, "name_owner_changed_cb: manager_file_read_idle_id == 0")
  ELSE [s EXCEPT !.manager_file_read_idle_id = TRUE,
                 !.introspect_idle_id = @ \/ s.want_activation,
                 !.name_known = TRUE]

\* name_owner_changed_cb, the else branch, after the recursive call
OwnerGainedBranch(s) ==
  IF s.aborted # "" THEN s
  ELSE [Emit([s EXCEPT !.running = TRUE], "activated", "")
          EXCEPT !.introspect_idle_id = TRUE]

tp_connection_manager_name_owner_changed_cb_noRestart(s, new_owner) ==
  IF new_owner = ""
  THEN NameKnownBlock(OwnerLostBranch(s))
  ELSE NameKnownBlock(OwnerGainedBranch(s))

tp_connection_manager_name_owner_changed_cb(s, new_owner) ==
  IF new_owner = ""
  THEN NameKnownBlock(OwnerLostBranch(s))
  ELSE NameKnownBlock(OwnerGainedBranch(
         IF s.running THEN NameKnownBlock(OwnerLostBranch(s)) ELSE s))

tp_connection_manager_read_file_alwaysFails(filename) ==
  [ok |-> FALSE, protocols |-> NoTable, interfaces |-> {}]

tp_connection_manager_read_file_alwaysParses(filename) ==
  [ok |-> TRUE, protocols |-> Table(FileProtocols), interfaces |-> FileInterfaces]

\* g_key_file_load_from_file and the loop over the groups
tp_connection_manager_read_file(filename) ==
  IF filename = GoodFile
  THEN [ok |-> TRUE, protocols |-> Table(FileProtocols), interfaces |-> FileInterfaces]
  ELSE [ok |-> FALSE, protocols |-> NoTable, interfaces |-> {}]

tp_connection_manager_idle_read_manager_file(s) ==
  LET s0 == [s EXCEPT !.manager_file_read_idle_id = FALSE]
      file == tp_connection_manager_read_file(s0.manager_file)
  IN IF s0.protocol_objects # NoTable THEN s0
     ELSE IF s0.manager_file # NULL /\ s0.manager_file # "" /\ file.ok
     THEN LET s1 == [s0 EXCEPT !.interfaces = @ \cup file.interfaces,
                               !.protocol_objects = file.protocols,
                               !.info_source = TP_CM_INFO_SOURCE_FILE]
          IN tp_connection_manager_ready_or_failed(
               Emit(Emit(s1, "notify::info-source", "FILE"), "got-info",
                    InfoSourceName(s1.info_source)),
               NoError)
     ELSE IF ~s0.introspect_idle_id
     THEN tp_connection_manager_idle_introspect(s0)
     ELSE s0

\* tp_connection_manager_set_property, case PROP_MANAGER_FILE; found is what
\* tp_connection_manager_find_manager_file would return
set_property_manager_file(s, value, found) ==
  IF s.name_known
  THEN [s EXCEPT !.manager_file = IF value = NULL THEN found ELSE value,
                 !.manager_file_read_idle_id = TRUE]
  ELSE [s EXCEPT !.manager_file = value]

\* tp_connection_manager_set_property, case PROP_ALWAYS_INTROSPECT
set_property_always_introspect(s, value) ==
  [s EXCEPT !.always_introspect = value,
            !.introspect_idle_id =
               @ \/ (s.running /\ ~s.always_introspect /\ value)]

tp_connection_manager_activate_always(s) ==
  [s EXCEPT !.introspect_idle_id = TRUE, !.ret = "TRUE", !.activating = TRUE]

tp_connection_manager_activate(s) ==
  IF s.name_known
  THEN IF s.running THEN [s EXCEPT !.ret = "FALSE"]
       ELSE [s EXCEPT !.introspect_idle_id = TRUE,
                      !.ret = "TRUE", !.activating = TRUE]
  ELSE [s EXCEPT !.want_activation = TRUE,
                 !.ret = "TRUE", !.activating = TRUE]

NameOwnerChanged ==
  /\ cm.aborted = ""
  /\ \E new_owner \in {"", ":1.1", ":1.2"} :
       cm' = tp_connection_manager_name_owner_changed_cb(
               Begin(cm, <<"name_owner_changed_cb", new_owner>>), new_owner)
  /\ UNCHANGED <<obs_vars, list_op, debug_sender, text_channel, test>>

IdleReadManagerFile ==
  /\ cm.aborted = ""
  /\ cm.manager_file_read_idle_id
  /\ cm' = tp_connection_manager_idle_read_manager_file(
            Begin(cm, <<"idle_read_manager_file">>))
  /\ UNCHANGED <<obs_vars, list_op, debug_sender, text_channel, test>>

IdleIntrospect ==
  /\ cm.aborted = ""
  /\ cm.introspect_idle_id
  /\ cm' = tp_connection_manager_idle_introspect(Begin(cm, <<"idle_introspect">>))
  /\ UNCHANGED <<obs_vars, list_op, debug_sender, text_channel, test>>

\* the bus delivers the reply of a GetAll call that was not cancelled
GetAllReply ==
  /\ cm.aborted = ""
  /\ cm.bus_calls > 0
  /\ \E reply \in GetAllReplies :
       cm' = tp_connection_manager_get_all_cb(
               Begin([cm EXCEPT !.bus_calls = @ - 1], <<"get_all_cb", reply>>), reply)
  /\ UNCHANGED <<obs_vars, list_op, debug_sender, text_channel, test>>

SetManagerFile ==
  /\ cm.aborted = ""
  /\ \E value \in ManagerFileValues, found \in FoundFiles :
       cm' = set_property_manager_file(
               Begin(cm, <<"set_property", "manager-file">>), value, found)
  /\ UNCHANGED <<obs_vars, list_op, debug_sender, text_channel, test>>

SetAlwaysIntrospect ==
  /\ cm.aborted = ""
  /\ \E value \in BOOLEAN :
       cm' = set_property_always_introspect(
               Begin(cm, <<"set_property", "always-introspect">>), value)
  /\ UNCHANGED <<obs_vars, list_op, debug_sender, text_channel, test>>

Activate ==
  /\ cm.aborted = ""
  /\ cm' = tp_connection_manager_activate(Begin(cm, <<"activate">>))
  /\ UNCHANGED <<obs_vars, list_op, debug_sender, text_channel, test>>

InitCM ==
  \E manager_file \in ManagerFileValues, found \in FoundFiles :
    cm = NewCM(manager_file, found)

NextCM ==
  \/ NameOwnerChanged
  \/ IdleReadManagerFile
  \/ IdleIntrospect
  \/ GetAllReply
  \/ SetManagerFile
  \/ SetAlwaysIntrospect
  \/ Activate

(* ------------------------------------------------------------------------ *)
(* tp_list_connection_managers_async                                        *)
(* ------------------------------------------------------------------------ *)
TP_CM_BUS_NAME_BASE == "org.freedesktop.Telepathy.ConnectionManager."

\* a bus name is <<prefix, rest>>, rest a string of characters
BusNames ==
  {<<TP_CM_BUS_NAME_BASE, <<"i">>>>, <<TP_CM_BUS_NAME_BASE, <<"j">>>>,
   <<TP_CM_BUS_NAME_BASE, <<"j", "_">>>>, <<TP_CM_BUS_NAME_BASE, <<"9">>>>,
   <<"org.example.", <<"j">>>>}

LISTING_FAILED == "name listing failed"
DUP_FAILED == "tp_dbus_daemon_dup failed"

\* what ListActivatableNames and ListNames can answer
NameReplies ==
  {[error |-> LISTING_FAILED, names |-> {}]} \cup
  {[error |-> NoError, names |-> n] : n \in SUBSET BusNames}

tp_connection_manager_check_valid_name(name) ==
  /\ Len(name) > 0
  /\ g_ascii_isalpha(name[1])
  /\ \A k \in 1..Len(name) : g_ascii_isalnum(name[k]) \/ name[k] = "_"

\* the GSimpleAsyncResult: references held on it, the outcomes set on it by
\* each completion, and how many completions wait for / have had their idle
NewResult ==
  [refs |-> 1, outcomes |-> <<>>, in_idle |-> 0, completed |-> 0]

unref_result(r) == [r EXCEPT !.refs = @ - 1]

g_simple_async_result_complete_in_idle(r, outcome) ==
  [r EXCEPT !.outcomes = Append(@, outcome), !.in_idle = @ + 1, !.refs = @ + 1]

NoListOp ==
  [called |-> FALSE,
   live |-> FALSE,            \* the _ListContext is allocated
   refcount |-> 0,
   callback |-> FALSE,        \* list_context->callback != NULL
   getting_names |-> FALSE,
   table |-> {},              \* names of the connection managers created
   arr |-> NoTable,
   cms_to_ready |-> 0,
   pending_call |-> "none",   \* the name-listing call in flight
   preparing |-> {},          \* connection managers whose prepare is outstanding
   settled |-> {},            \* <<name, success>> of the prepares that settled
   result |-> NewResult,
   aborted |-> ""]

list_connection_managers_async_cb(o, cms, error) ==
  [o EXCEPT !.result = g_simple_async_result_complete_in_idle(@,
                         IF error # NoError THEN <<"error", error>>
                         ELSE <<"cms", cms>>)]

\* destroy is g_object_unref, user_data the GSimpleAsyncResult
list_context_unref(o) ==
  IF o.refcount - 1 > 0 THEN [o EXCEPT !.refcount = @ - 1]
  ELSE [o EXCEPT !.refcount = 0, !.live = FALSE,
                 !.result = unref_result(@)]

tp_list_connection_managers_cm_prepared(o) ==
  LET o1 == [o EXCEPT !.cms_to_ready = @ - 1]
      o2 == IF o1.cms_to_ready # 0 THEN o1
            ELSE IF ~o1.callback
            THEN [o1 EXCEPT !.aborted = "cm_prepared: callback != NULL"]
            ELSE [list_connection_managers_async_cb(o1, o1.arr[1], NoError)
                    EXCEPT !.callback = FALSE]
  IN IF o2.aborted # "" THEN o2 ELSE list_context_unref(o2)

\* the names of the reply that the loop turns into connection managers
NewManagers(o, names) ==
  {n[2] : n \in {m \in names : /\ m[1] = TP_CM_BUS_NAME_BASE
                              /\ m[2] \notin o.table
                              /\ tp_connection_manager_check_valid_name(m[2])}}

tp_list_connection_managers_got_names(o, reply) ==
  IF reply.error # NoError
  THEN list_connection_managers_async_cb(o, {}, reply.error)
  ELSE LET o1 == [o EXCEPT !.table = @ \cup NewManagers(o, reply.names)]
       IN IF o1.getting_names
          THEN [o1 EXCEPT !.arr = Table(o1.table),
                          !.table = {},
                          !.cms_to_ready = Cardinality(o1.table),
                          !.refcount = @ + Cardinality(o1.table),
                          !.preparing = o1.table]
          ELSE [o1 EXCEPT !.getting_names = TRUE,
                          !.refcount = @ + 1,
                          !.pending_call = "ListNames"]

tp_list_connection_managers(o) ==
  [o EXCEPT !.live = TRUE,
            !.callback = TRUE,
            !.getting_names = FALSE,
            !.refcount = 1,
            !.table = {},
            !.arr = NoTable,
            !.cms_to_ready = 0,
            !.pending_call = "ListActivatableNames"]

\* dbus_daemon is the argument, dup what tp_dbus_daemon_dup would return
tp_list_connection_managers_async(o, dbus_daemon, dup) ==
  LET daemon == IF dbus_daemon = NULL THEN dup ELSE dbus_daemon
      o1 == [o EXCEPT !.called = TRUE, !.result = NewResult]
  IN IF daemon = NULL
     THEN [o1 EXCEPT !.result = unref_result(
             g_simple_async_result_complete_in_idle(@, <<"error", DUP_FAILED>>))]
     ELSE tp_list_connection_managers(o1)

ListConnectionManagersAsync ==
  /\ ~list_op.called
  /\ \E dbus_daemon \in {NULL, "bus"}, dup \in {NULL, "bus"} :
       list_op' = tp_list_connection_managers_async(list_op, dbus_daemon, dup)
  /\ UNCHANGED <<obs_vars, cm, debug_sender, text_channel, test>>

\* the bus daemon answers the name-listing call in flight; the pending call
\* then drops its user data through list_context_unref
GotNames ==
  /\ list_op.aborted = ""
  /\ list_op.pending_call # "none"
  /\ \E reply \in NameReplies :
       list_op' = list_context_unref(
                    tp_list_connection_managers_got_names(
                      [list_op EXCEPT !.pending_call = "none"], reply))
  /\ UNCHANGED <<obs_vars, cm, debug_sender, text_channel, test>>

\* tp_proxy_prepare_async of one connection manager settles, either way
CMPrepared ==
  /\ list_op.aborted = ""
  /\ \E name \in list_op.preparing :
     \E success \in BOOLEAN :
       list_op' = tp_list_connection_managers_cm_prepared(
                    [list_op EXCEPT !.preparing = @ \ {name},
                                    !.settled = @ \cup {<<name, success>>}])
  /\ UNCHANGED <<obs_vars, cm, debug_sender, text_channel, test>>

\* the idle callback of g_simple_async_result_complete_in_idle
CompleteInIdle ==
  /\ list_op.result.in_idle > 0
  /\ list_op' = [list_op EXCEPT !.result.in_idle = @ - 1,
                                !.result.completed = @ + 1,
                                !.result.refs = @ - 1]
  /\ UNCHANGED <<obs_vars, cm, debug_sender, text_channel, test>>

InitList == list_op = NoListOp

NextList ==
  \/ ListConnectionManagersAsync
  \/ GotNames
  \/ CMPrepared
  \/ CompleteInIdle

(* ------------------------------------------------------------------------ *)
(* TpDebugSender                                                            *)
(* ------------------------------------------------------------------------ *)
DEBUG_MESSAGE_LIMIT == 800

\* tp_debug_sender_add_message calls explored
MaxMessages == 802

G_LOG_LEVEL_DEBUG == "G_LOG_LEVEL_DEBUG"
TP_DEBUG_LEVEL_DEBUG == "TP_DEBUG_LEVEL_DEBUG"

log_level_flags_to_debug_level(level) ==
  IF level = G_LOG_LEVEL_DEBUG THEN TP_DEBUG_LEVEL_DEBUG
  ELSE "g_assert_not_reached"

\* timestamp is a GTimeVal
debug_message_new(timestamp, domain, level, string) ==
  [timestamp |-> timestamp.tv_sec + timestamp.tv_usec \div 1000000,
   domain |-> domain,
   level |-> log_level_flags_to_debug_level(level),
   string |-> string]

\* tp_debug_sender_log_handler calls explored
MaxLogged == 2

\* references to the debug sender that callers hold at a time
MaxRefs == 2

\* static TpDebugSender *debug_sender = NULL, and no instance
NoDebugSender ==
  [exists |-> FALSE,               \* the static pointer is not NULL
   ref_count |-> 0,                \* of the instance
   held |-> 0,                     \* references handed to callers, not yet dropped
   constructed |-> 0,              \* instances constructed so far
   registered |-> FALSE,           \* the instance is exported on the bus
   enabled |-> FALSE,
   messages |-> <<>>,
   added |-> 0,                    \* tp_debug_sender_add_message calls so far
   logged |-> 0,                   \* g_log_default_handler calls so far
   handler |-> "none",             \* the handler that ran last
   args |-> <<>>,                  \* its inputs, where it has a choice of them
   ret |-> 0,                      \* the instance it returned, if it returns one
   out |-> <<>>]                   \* what it emitted or returned

tp_debug_sender_constructor_alwaysNew(s) ==
  [s EXCEPT !.exists = TRUE, !.ref_count = 1, !.constructed = @ + 1,
            !.enabled = FALSE, !.messages = <<>>]

\* the parent constructor runs tp_debug_sender_init and the property defaults
tp_debug_sender_constructor(s) ==
  IF ~s.exists
  THEN [s EXCEPT !.exists = TRUE, !.ref_count = 1, !.constructed = @ + 1,
                 !.enabled = FALSE, !.messages = <<>>]
  ELSE [s EXCEPT !.ref_count = @ + 1]

\* dup is what tp_dbus_daemon_dup would return
tp_debug_sender_constructed(s, dup) ==
  LET s1 == tp_debug_sender_constructor(s)
  IN IF dup = NULL THEN s1 ELSE [s1 EXCEPT !.registered = TRUE]

\* g_object_new (TP_TYPE_DEBUG_SENDER, NULL): constructed runs for an object
\* that the constructor has just created
g_object_new(s, dup) ==
  IF ~s.exists
  THEN tp_debug_sender_constructed(tp_debug_sender_constructor(s), dup)
  ELSE tp_debug_sender_constructor(s)

tp_debug_sender_dup(s, dup) ==
  LET s1 == g_object_new(s, dup)
  IN [s1 EXCEPT !.ret = s1.constructed, !.held = @ + 1]

\* the weak pointer clears debug_sender when the last reference goes
g_object_unref(s) ==
  IF s.ref_count - 1 = 0
  THEN [s EXCEPT !.ref_count = 0, !.held = @ - 1, !.exists = FALSE,
                 !.registered = FALSE, !.messages = <<>>]
  ELSE [s EXCEPT !.ref_count = @ - 1, !.held = @ - 1]

\* the instance a caller got from its first tp_debug_sender_dup
NewDebugSender ==
  [tp_debug_sender_dup(NoDebugSender, "bus") EXCEPT !.handler = "constructor"]

tp_debug_sender_add_message_offByOne(s, timestamp, domain, level, string) ==
  LET q == IF Len(s.messages) > DEBUG_MESSAGE_LIMIT
           THEN Tail(s.messages) ELSE s.messages
      new_msg == debug_message_new(timestamp, domain, level, string)
  IN [s EXCEPT !.messages = Append(q, new_msg),
               !.out = IF s.enabled THEN <<new_msg>> ELSE <<>>]

tp_debug_sender_add_message_alwaysEmit(s, timestamp, domain, level, string) ==
  LET q == IF Len(s.messages) >= DEBUG_MESSAGE_LIMIT
           THEN Tail(s.messages) ELSE s.messages
      new_msg == debug_message_new(timestamp, domain, level, string)
  IN [s EXCEPT !.messages = Append(q, new_msg), !.out = <<new_msg>>]

tp_debug_sender_add_message(s, timestamp, domain, level, string) ==
  LET q == IF Len(s.messages) >= DEBUG_MESSAGE_LIMIT
           THEN Tail(s.messages) ELSE s.messages
      new_msg == debug_message_new(timestamp, domain, level, string)
  IN [s EXCEPT !.messages = Append(q, new_msg),
               !.out = IF s.enabled THEN <<new_msg>> ELSE <<>>]

tp_debug_sender_set_property(s, value) == [s EXCEPT !.enabled = value]

tp_strdiff(a, b) == a # b

tp_debug_sender_log_handler(s, log_domain, log_level, message, exclude) ==
  LET s1 == [s EXCEPT !.logged = @ + 1]    \* g_log_default_handler
  IN IF ~s1.exists THEN s1
     ELSE IF exclude # NULL /\ tp_strdiff(log_domain, exclude)
     THEN tp_debug_sender_add_message(
            [s1 EXCEPT !.added = @ + 1],
            [tv_sec |-> s1.added + 1, tv_usec |-> 0],  \* g_get_current_time
            log_domain, log_level, message)
     ELSE s1

get_messages(s) == [s EXCEPT !.out = s.messages]

\* the k-th call passes the time k and the same domain, level and string
AddMessage ==
  /\ debug_sender.held > 0
  /\ debug_sender.added < MaxMessages
  /\ debug_sender' =
       tp_debug_sender_add_message(
         [debug_sender EXCEPT !.added = @ + 1, !.handler = "add_message",
                              !.out = <<>>],
         [tv_sec |-> debug_sender.added + 1, tv_usec |-> 0],
         "domain", G_LOG_LEVEL_DEBUG, "string")
  /\ UNCHANGED <<obs_vars, cm, list_op, text_channel, test>>

SetEnabled ==
  /\ debug_sender.held > 0
  /\ \E value \in BOOLEAN :
       debug_sender' =
         tp_debug_sender_set_property(
           [debug_sender EXCEPT !.handler = "set_property", !.out = <<>>],
           value)
  /\ UNCHANGED <<obs_vars, cm, list_op, text_channel, test>>

GetMessages ==
  /\ debug_sender.held > 0
  /\ debug_sender' =
       get_messages([debug_sender EXCEPT !.handler = "get_messages",
                                         !.out = <<>>])
  /\ UNCHANGED <<obs_vars, cm, list_op, text_channel, test>>


LogHandler ==
  /\ debug_sender.logged < MaxLogged
  /\ \E log_domain, exclude \in {NULL, "domain", "other"} :
       debug_sender' =
         tp_debug_sender_log_handler(
           [debug_sender EXCEPT !.handler = "log_handler", !.out = <<>>,
                                !.args = <<log_domain, exclude>>],
           log_domain, G_LOG_LEVEL_DEBUG, "string", exclude)
  /\ UNCHANGED <<obs_vars, cm, list_op, text_channel, test>>

Dup ==
  /\ debug_sender.held < MaxRefs
  /\ \E dup \in {NULL, "bus"} :
       debug_sender' =
         tp_debug_sender_dup(
           [debug_sender EXCEPT !.handler = "dup", !.out = <<>>], dup)
  /\ UNCHANGED <<obs_vars, cm, list_op, text_channel, test>>

Unref ==
  /\ debug_sender.held > 0
  /\ debug_sender' =
       g_object_unref([debug_sender EXCEPT !.handler = "unref", !.out = <<>>])
  /\ UNCHANGED <<obs_vars, cm, list_op, text_channel, test>>

InitDebug == debug_sender = NewDebugSender

\* before the first tp_debug_sender_dup
InitNoDebug == debug_sender = NoDebugSender

\* the instance's life and the log handler
NextLog ==
  \/ Dup
  \/ Unref
  \/ LogHandler
  \/ SetEnabled
  \/ GetMessages

NextDebug ==
  \/ AddMessage
  \/ SetEnabled
  \/ GetMessages

(* ------------------------------------------------------------------------ *)
(* TpTextChannel and the readiness of its features                          *)
(* ------------------------------------------------------------------------ *)
TP_CHANNEL_FEATURE_CORE == "tp-channel-feature-core"
TP_TEXT_CHANNEL_FEATURE_PENDING_MESSAGES ==
  "tp-text-channel-feature-pending-messages"

\* in the order in which a prepare call starts them
FeatureOrder ==
  <<TP_CHANNEL_FEATURE_CORE, TP_TEXT_CHANNEL_FEATURE_PENDING_MESSAGES>>
Features == {FeatureOrder[k] : k \in 1..Len(FeatureOrder)}

TP_DBUS_ERROR_INCONSISTENT == "TP_DBUS_ERROR_INCONSISTENT"

\* g_simple_async_result_new with its source tag, for SetChatState
NoChatState ==
  [called |-> FALSE, tag |-> "none", in_flight |-> FALSE, completed |-> FALSE,
   error |-> NoError, finish |-> "none", finish_error |-> NoError]

NoTextChannel ==
  [channel_type_text |-> TRUE,         \* the channel type is Text
   has_messages |-> TRUE,              \* the Messages interface is there
   invalidated |-> NoError,
   state |-> [f \in Features |-> "Unprepared"],
   starts |-> [f \in Features |-> 0],   \* invocations of the feature's start
   waiters |-> <<>>,                    \* [id, requested] in registration order
   fired |-> <<>>,                      \* [id, requested, error] in firing order
   nprepare |-> 0,                      \* prepare calls so far
   core_op |-> FALSE,                   \* the core feature's start is in flight
   message_sent_connected |-> FALSE,
   message_received_connected |-> FALSE,
   pending_messages_removed_connected |-> FALSE,
   retrieving_pending |-> FALSE,
   pending_messages |-> <<>>,
   service_pending |-> <<>>,            \* PendingMessages as the service has it
   contact_requests |-> <<>>,           \* messages whose sender is being looked up
   announced |-> <<>>,                  \* identifiers sent with message-received
   get_call |-> FALSE,                  \* the Get of PendingMessages is in flight
   fetched |-> FALSE,                   \* a PendingMessages value has been stored
   chat |-> NoChatState,
   handler |-> <<"constructed">>]

\* every feature the waiter asked for has left Unprepared and Preparing
Resolved(p, w) ==
  \A f \in w.requested : p.state[f] \in {"Prepared", "Failed"}

WaiterResult(p, w) ==
  IF \A f \in w.requested : p.state[f] = "Prepared" THEN NoError
  ELSE "FeatureStartFailed"

MapWaiters(p, ws, error) ==
  [k \in 1..Len(ws) |->
     [id |-> ws[k].id, requested |-> ws[k].requested,
      error |-> IF error = NoError THEN WaiterResult(p, ws[k]) ELSE error]]

ReleaseWaiters_reversed(p) ==
  LET IsResolved(w) == Resolved(p, w)
      IsPending(w) == ~Resolved(p, w)
      done == SelectSeq(p.waiters, IsResolved)
      out == MapWaiters(p, done, NoError)
  IN [p EXCEPT !.fired = @ \o [k \in 1..Len(out) |-> out[Len(out) + 1 - k]],
               !.waiters = SelectSeq(p.waiters, IsPending)]

\* re-evaluate the pending waiters, in registration order
ReleaseWaiters(p) ==
  LET IsResolved(w) == Resolved(p, w)
      IsPending(w) == ~Resolved(p, w)
  IN [p EXCEPT !.fired = @ \o MapWaiters(p, SelectSeq(p.waiters, IsResolved),
                                         NoError),
               !.waiters = SelectSeq(p.waiters, IsPending)]

\* _tp_proxy_set_feature_prepared
tp_proxy_set_feature_prepared(p, f, ok) ==
  IF p.invalidated # NoError \/ p.state[f] # "Preparing" THEN p
  ELSE ReleaseWaiters([p EXCEPT !.state[f] =
                                   IF ok THEN "Prepared" ELSE "Failed"])

tp_proxy_invalidate(p, error) ==
  IF p.invalidated # NoError THEN p
  ELSE [p EXCEPT !.invalidated = error,
                 !.fired = @ \o MapWaiters(p, p.waiters, error),
                 !.waiters = <<>>]

tp_text_channel_constructed_neverInvalidates(p) ==
  [p EXCEPT !.message_sent_connected = TRUE]

tp_text_channel_constructed(p) ==
  IF ~p.channel_type_text
  THEN tp_proxy_invalidate(p, TP_DBUS_ERROR_INCONSISTENT)
  ELSE IF ~p.has_messages
  THEN tp_proxy_invalidate(p, TP_DBUS_ERROR_INCONSISTENT)
  ELSE [p EXCEPT !.message_sent_connected = TRUE]

add_message_received(p, msg) ==
  [p EXCEPT !.pending_messages = Append(@, msg),
            !.announced = Append(@, msg.id)]

\* result: the contact, an error, or a handle reported as failed
got_sender_contact_cb(p, msg, result) ==
  add_message_received(
    p, IF result = "contact" THEN [msg EXCEPT !.contact = TRUE] ELSE msg)

message_received_cb(p, message) ==
  IF p.retrieving_pending THEN p
  ELSE IF message.sender = 0 THEN add_message_received(p, message)
  ELSE [p EXCEPT !.contact_requests = Append(@, message)]

get_pending_messages_cb(p, reply) ==
  LET p1 == [p EXCEPT !.retrieving_pending = FALSE]
  IN IF reply.error # NoError
     THEN tp_proxy_set_feature_prepared(
            p1, TP_TEXT_CHANNEL_FEATURE_PENDING_MESSAGES, FALSE)
     ELSE tp_proxy_set_feature_prepared(
            [p1 EXCEPT !.pending_messages = @ \o reply.messages,
                       !.fetched = TRUE],
            TP_TEXT_CHANNEL_FEATURE_PENDING_MESSAGES, TRUE)

\* received_ok and removed_ok: whether connecting to MessageReceived and to
\* PendingMessagesRemoved succeeds
tp_text_channel_prepare_pending_messages(p, received_ok, removed_ok) ==
  IF ~received_ok
  THEN tp_proxy_set_feature_prepared(
         p, TP_TEXT_CHANNEL_FEATURE_PENDING_MESSAGES, TRUE)
  ELSE LET p1 == [p EXCEPT !.message_received_connected = TRUE]
       IN IF ~removed_ok
          THEN tp_proxy_set_feature_prepared(
                 p1, TP_TEXT_CHANNEL_FEATURE_PENDING_MESSAGES, TRUE)
          ELSE [p1 EXCEPT !.pending_messages_removed_connected = TRUE,
                          !.retrieving_pending = TRUE,
                          !.get_call = TRUE]

\* start_preparing of the feature, as tp_text_channel_list_features declares it
StartPreparing(p, f, received_ok, removed_ok) ==
  IF f = TP_TEXT_CHANNEL_FEATURE_PENDING_MESSAGES
  THEN tp_text_channel_prepare_pending_messages(p, received_ok, removed_ok)
  ELSE [p EXCEPT !.core_op = TRUE]

NeedsStart_unlessPrepared(p, f) == p.state[f] # "Prepared"

NeedsStart(p, f) == p.state[f] = "Unprepared"

\* mark the feature Preparing and invoke its start, if it is Unprepared
StartFeature(p, requested, f, received_ok, removed_ok) ==
  IF f \in requested /\ NeedsStart(p, f)
  THEN StartPreparing([p EXCEPT !.state[f] = "Preparing",
                                !.starts[f] = @ + 1],
                      f, received_ok, removed_ok)
  ELSE p

tp_proxy_prepare_async(p, requested, received_ok, removed_ok) ==
  LET id == p.nprepare + 1
      w == [id |-> id, requested |-> requested]
      p0 == [p EXCEPT !.nprepare = id]
  IN IF p0.invalidated # NoError
     THEN [p0 EXCEPT !.fired = Append(@, [id |-> id, requested |-> requested,
                                            error |-> p0.invalidated])]
     ELSE LET p1 == StartFeature(p0, requested, FeatureOrder[1],
                                 received_ok, removed_ok)
              p2 == StartFeature(p1, requested, FeatureOrder[2],
                                 received_ok, removed_ok)
          IN IF Resolved(p2, w)
             THEN [p2 EXCEPT !.fired = Append(@, [id |-> id, requested |-> requested,
                                                    error |-> WaiterResult(p2, w)])]
             ELSE [p2 EXCEPT !.waiters = Append(@, w)]

\* the source tag of a result is the address of a function, here its name
tp_text_channel_set_chat_state_async(p) ==
  [p EXCEPT !.chat = [NoChatState EXCEPT
                        !.called = TRUE,
                        !.tag = "tp_text_channel_set_chat_state_async",
                        !.in_flight = TRUE]]

set_chat_state_cb(p, error) ==
  [p EXCEPT !.chat.error = error,
            !.chat.in_flight = FALSE,
            !.chat.completed = TRUE]

\* _tp_implement_finish_void; checks: g_return_val_if_fail is compiled in,
\* on g_simple_async_result_is_valid, which compares the source tags
tp_implement_finish_void(result, tag, checks) ==
  IF result.error # NoError
  THEN [ret |-> "FALSE", error |-> result.error]
  ELSE IF checks /\ result.tag # tag
  THEN [ret |-> "FALSE", error |-> NoError]
  ELSE [ret |-> "TRUE", error |-> NoError]

tp_text_channel_set_chat_state_finish(p, checks) ==
  LET r == tp_implement_finish_void(
             p.chat, "tp_text_channel_set_chat_state_finish", checks)
  IN [p EXCEPT !.chat.finish = r.ret, !.chat.finish_error = r.error]

TextStep(p, handler) == [p EXCEPT !.handler = handler]

PrepareAsync ==
  /\ text_channel.nprepare < MaxPrepares
  /\ \E requested \in SUBSET Features \ {{}}, received_ok, removed_ok \in BOOLEAN :
       text_channel' =
         TextStep(tp_proxy_prepare_async(text_channel, requested,
                                         received_ok, removed_ok),
                  <<"prepare", requested>>)
  /\ UNCHANGED <<obs_vars, cm, list_op, debug_sender, test>>

\* a call pending when the proxy is invalidated ends with that error; a
\* reply carries the service's PendingMessages, and reaches the channel after
\* the signals the service sent before it
GetPendingMessagesReply ==
  /\ text_channel.get_call
  /\ \E error \in {NoError, "Get failed"} :
       /\ text_channel.invalidated # NoError => error # NoError
       /\ text_channel' =
            TextStep(get_pending_messages_cb(
                       [text_channel EXCEPT !.get_call = FALSE],
                       [error |-> error,
                        messages |-> IF error = NoError
                                     THEN text_channel.service_pending
                                     ELSE <<>>]),
                     <<"get_pending_messages_cb", error>>)
  /\ UNCHANGED <<obs_vars, cm, list_op, debug_sender, test>>

CorePrepared ==
  /\ text_channel.core_op
  /\ \E ok \in BOOLEAN :
       text_channel' =
         TextStep(tp_proxy_set_feature_prepared(
                    [text_channel EXCEPT !.core_op = FALSE],
                    TP_CHANNEL_FEATURE_CORE, ok),
                  <<"core", ok>>)
  /\ UNCHANGED <<obs_vars, cm, list_op, debug_sender, test>>

Invalidate ==
  /\ text_channel.invalidated = NoError
  /\ text_channel' = TextStep(tp_proxy_invalidate(text_channel, "channel closed"),
                              <<"invalidate">>)
  /\ UNCHANGED <<obs_vars, cm, list_op, debug_sender, test>>

SetChatStateAsync ==
  /\ ~text_channel.chat.called
  /\ text_channel' = TextStep(tp_text_channel_set_chat_state_async(text_channel),
                              <<"set_chat_state_async">>)
  /\ UNCHANGED <<obs_vars, cm, list_op, debug_sender, test>>

SetChatStateReply ==
  /\ text_channel.chat.in_flight
  /\ \E error \in {NoError, "SetChatState failed"} :
       /\ text_channel.invalidated # NoError => error # NoError
       /\ text_channel' = TextStep(set_chat_state_cb(text_channel, error),
                                   <<"set_chat_state_cb", error>>)
  /\ UNCHANGED <<obs_vars, cm, list_op, debug_sender, test>>

SetChatStateFinish ==
  /\ text_channel.chat.completed
  /\ text_channel.chat.finish = "none"
  /\ \E checks \in BOOLEAN :
       text_channel' =
         TextStep(tp_text_channel_set_chat_state_finish(text_channel, checks),
                  <<"set_chat_state_finish", checks>>)
  /\ UNCHANGED <<obs_vars, cm, list_op, debug_sender, test>>

\* the service receives a message and signals it; the signal reaches the
\* channel if MessageReceived is connected
NewMessage ==
  /\ Len(text_channel.service_pending) < MaxTextMessages
  /\ \E sender \in {0, 1} :
       LET msg == [id |-> Len(text_channel.service_pending) + 1,
                   sender |-> sender, contact |-> FALSE]
           p == [text_channel EXCEPT !.service_pending = Append(@, msg)]
       IN text_channel' =
            TextStep(IF p.message_received_connected /\ p.invalidated = NoError
                     THEN message_received_cb(p, msg) ELSE p,
                     <<"message_received_cb", msg.id>>)
  /\ UNCHANGED <<obs_vars, cm, list_op, debug_sender, test>>

GotSenderContact ==
  \E k \in 1..Len(text_channel.contact_requests),
     result \in {"contact", "error", "n_failed"} :
    /\ text_channel' =
         TextStep(got_sender_contact_cb(
                    [text_channel EXCEPT !.contact_requests =
                       SubSeq(@, 1, k - 1) \o SubSeq(@, k + 1, Len(@))],
                    text_channel.contact_requests[k], result),
                  <<"got_sender_contact_cb", result>>)
    /\ UNCHANGED <<obs_vars, cm, list_op, debug_sender, test>>

\* a channel of any type, with or without the Messages interface
InitText ==
  \E channel_type_text, has_messages \in BOOLEAN :
    text_channel =
      tp_text_channel_constructed(
        [NoTextChannel EXCEPT !.channel_type_text = channel_type_text,
                              !.has_messages = has_messages])

InitNoText == text_channel = NoTextChannel

\* the pending-messages feature and the messages arriving around its
\* preparation
NextMessages ==
  \/ \E received_ok, removed_ok \in BOOLEAN :
       /\ text_channel.nprepare < MaxPrepares
       /\ text_channel' =
            TextStep(tp_proxy_prepare_async(
                       text_channel, {TP_TEXT_CHANNEL_FEATURE_PENDING_MESSAGES},
                       received_ok, removed_ok),
                     <<"prepare", {TP_TEXT_CHANNEL_FEATURE_PENDING_MESSAGES}>>)
       /\ UNCHANGED <<obs_vars, cm, list_op, debug_sender, test>>
  \/ GetPendingMessagesReply
  \/ NewMessage
  \/ GotSenderContact

NextText ==
  \/ PrepareAsync
  \/ GetPendingMessagesReply
  \/ CorePrepared
  \/ Invalidate
  \/ SetChatStateAsync
  \/ SetChatStateReply
  \/ SetChatStateFinish

(* ------------------------------------------------------------------------ *)
(* test_observer: ObserveChannels calls on a registered observer client     *)
(* ------------------------------------------------------------------------ *)
TP_ERROR_INVALID_ARGUMENT == "TP_ERROR_INVALID_ARGUMENT"

\* simple_client->observe_ctx before any context was accepted
NoContext == [recovering |-> FALSE, FAIL |-> FALSE, dbus_context |-> 0]

\* the test after tp_base_client_register
NewTest ==
  [issued |-> <<>>,      \* the FAIL entry of each call's observer_info
   calls |-> <<>>,       \* method calls on their way to the client
   returns |-> <<>>,     \* replies on their way back: [id, error]
   delivered |-> <<>>,   \* replies handed to no_return_cb: [id, error]
   observe_ctx |-> NoContext,
   error |-> NoError,    \* test->error
   handler |-> "setup"]

\* _tp_observe_channels_context_new
tp_observe_channels_context_new(call) ==
  [recovering |-> TRUE, FAIL |-> call.FAIL, dbus_context |-> call.id]

\* the observer implementation of the test: fails the context when the
\* observer_info says FAIL, accepts it otherwise
simple_observe_channels(context) ==
  IF context.FAIL THEN TP_ERROR_INVALID_ARGUMENT ELSE NoError

\* the ObserveChannels method of the client: one reply on the context's
\* dbus_context, whichever way the implementation settles the context
tp_base_client_observe_channels(t, call) ==
  LET context == tp_observe_channels_context_new(call)
      error == simple_observe_channels(context)
  IN [t EXCEPT !.observe_ctx = IF error = NoError THEN context ELSE @,
               !.returns = Append(@, [id |-> context.dbus_context,
                                      error |-> error])]

no_return_cb_noClear(t, error) ==
  IF error # NoError THEN [t EXCEPT !.error = error] ELSE t

no_return_cb(t, error) ==
  LET cleared == [t EXCEPT !.error = NoError]
  IN IF error # NoError THEN [cleared EXCEPT !.error = error] ELSE cleared

\* tp_cli_client_observer_call_observe_channels with no_return_cb
test_observer(t, FAIL) ==
  LET id == Len(t.issued) + 1
  IN [t EXCEPT !.issued = Append(@, FAIL),
               !.calls = Append(@, [id |-> id, FAIL |-> FAIL])]

CallObserveChannels ==
  /\ Len(test.issued) < MaxObserveCalls
  /\ \E FAIL \in BOOLEAN :
       test' = [test_observer(test, FAIL) EXCEPT !.handler = "call"]
  /\ UNCHANGED <<obs_vars, cm, list_op, debug_sender, text_channel>>

HandleObserveChannels ==
  /\ test.calls # <<>>
  /\ test' = [tp_base_client_observe_channels(
                [test EXCEPT !.calls = Tail(@)], Head(test.calls))
              EXCEPT !.handler = "observe_channels"]
  /\ UNCHANGED <<obs_vars, cm, list_op, debug_sender, text_channel>>

NoReturn ==
  /\ test.returns # <<>>
  /\ test' = [no_return_cb([test EXCEPT !.returns = Tail(@),
                                        !.delivered = Append(@, Head(test.returns))],
                           Head(test.returns).error)
              EXCEPT !.handler = "no_return_cb"]
  /\ UNCHANGED <<obs_vars, cm, list_op, debug_sender, text_channel>>

InitTest == test = NewTest

NextTest ==
  \/ CallObserveChannels
  \/ HandleObserveChannels
  \/ NoReturn

Init == InitObs /\ InitCM /\ InitList /\ InitDebug /\ InitNoText /\ InitTest

\* every component as it is created, with a connection manager that has
\* neither a name owner nor a manager file; each specification below moves
\* one component and leaves the others as they are
InitObserver == InitObs /\ cm = NewCM(NULL, NULL) /\ InitList /\ InitDebug /\ InitNoText /\ InitTest

SpecObs == InitObserver /\ [][NextObs]_vars

\* the connection manager alone, next to an observer that is never called
SpecCM == Init /\ [][NextCM]_vars

\* one listing operation
SpecList == InitObserver /\ [][NextList]_vars

\* the debug sender alone
SpecDebug == InitObserver /\ [][NextDebug]_vars

\* the debug sender from before its construction, fed by the log handler
InitLogHandler == InitObs /\ cm = NewCM(NULL, NULL) /\ InitList /\ InitNoDebug /\ InitNoText /\ InitTest

SpecLog == InitLogHandler /\ [][NextLog]_vars

\* the registry of observed channels: registrations and unregistrations
SpecRegistry == InitObserver /\ [][NextRegistry]_vars

\* one text channel, from its construction
InitTextChannel == InitObs /\ cm = NewCM(NULL, NULL) /\ InitList /\ InitDebug /\ InitText /\ InitTest

SpecText == InitTextChannel /\ [][NextText]_vars

SpecMessages == InitTextChannel /\ [][NextMessages]_vars

\* the observer test
SpecTest == InitObserver /\ [][NextTest]_vars

(* ------------------------------------------------------------------------ *)
(* Properties of the dispatch barrier                                       *)
(* ------------------------------------------------------------------------ *)
Called(b) == calls[b].exit # "none"
Pending(b) == {i \in 1..Len(prep[b]) : prep[b][i] = "pending"}
Prepared(b) == {i \in 1..Len(prep[b]) : prep[b][i] = "ok"}
ValidArgs(b) ==
  ~TPL_STR_EMPTY(calls[b].account) /\ ~TPL_STR_EMPTY(calls[b].connection)
AllCreatable(b) ==
  \A i \in 1..Len(calls[b].channels) : calls[b].channels[i].creatable

\* C1: every observe_channels call that passes validation and the gates and
\* carries a reply slot has produced exactly one reply once none of its
\* preparations is outstanding, whatever its channel list and the outcome of
\* each channel (creation fails, preparation fails, preparation succeeds);
\* and never more than one.
C1_ExactlyOneReply ==
  \A b \in Batches :
    (calls[b].exit = "dispatched" /\ calls[b].dbus_context) =>
       /\ Len(replies[b]) <= 1
       /\ (Pending(b) = {} => Len(replies[b]) = 1)

\* C2: a call with valid arguments, an empty channel list and a reply slot has
\* its reply when the call returns, and has started no preparation.
C2_EmptyListRepliesInCall ==
  \A b \in Batches :
    (Called(b) /\ ValidArgs(b) /\ calls[b].no_channels /\ calls[b].dbus_context) =>
       /\ replies[b] = <<"return">>
       /\ prep[b] = <<>>

\* C3: in a batch of N >= 1 channels that are all being prepared, no reply is
\* produced and the context stays alive while any preparation is outstanding
\* (a failure aborts nothing); once all N have settled the reply slot, if any,
\* has been answered exactly once, every channel whose preparation succeeded
\* is found under its path and no channel whose preparation failed is in the
\* map.
C3_ReplyOnceAllSettled ==
  /\ \A p \in Paths :
       channel_map[p] # NoChannel => prep[channel_map[p][1]][channel_map[p][2]] = "ok"
  /\ \A b \in Batches :
       (calls[b].exit = "dispatched" /\ AllCreatable(b) /\ ~calls[b].no_channels) =>
          /\ Pending(b) # {} =>
               /\ replies[b] = <<>>
               /\ observing_ctx[b].alloc = "live"
               /\ observing_ctx[b].chan_n = Cardinality(Pending(b))
          /\ Pending(b) = {} =>
               /\ replies[b] = (IF calls[b].dbus_context THEN <<"return">> ELSE <<>>)
               /\ \A i \in 1..Len(prep[b]) :
                    /\ prep[b][i] = "ok" =>
                         /\ channel_map[calls[b].channels[i].path] # NoChannel
                         /\ <<b, i>> \in reg_log
                    /\ prep[b][i] = "failed" =>
                         /\ channel_map[calls[b].channels[i].path] # <<b, i>>
                         /\ <<b, i>> \notin reg_log

C3_Witness ==
  \E b \in Batches :
    /\ calls[b].exit = "dispatched" /\ AllCreatable(b) /\ calls[b].dbus_context
    /\ Len(prep[b]) >= 3
    /\ Pending(b) = {}
    /\ Cardinality({i \in 1..Len(prep[b]) : prep[b][i] = "failed"}) = 1
    /\ replies[b] = <<"return">>
    /\ prep[b][1] = "ok" /\ channel_map[calls[b].channels[1].path] = <<b, 1>>

\* C4: a call with an empty account or connection and a reply slot is answered
\* with an error, and starts no preparation.
C4_InvalidArgumentAnswered ==
  \A b \in Batches :
    (Called(b) /\ ~ValidArgs(b) /\ calls[b].dbus_context) =>
       /\ replies[b] = <<"error">>
       /\ prep[b] = <<>>

\* C5: a call with valid arguments made while logging is globally disabled or
\* the account is ignored creates no dispatch context and no proxy, prepares
\* and registers nothing, and answers its reply slot, if any, exactly once
\* inside the call.
C5_GateShortCircuits ==
  \A b \in Batches :
    (Called(b) /\ ValidArgs(b) /\
     (~calls[b].globally_enabled \/ calls[b].account_ignored)) =>
       /\ observing_ctx[b].alloc = "none"
       /\ prep[b] = <<>>
       /\ ~calls[b].proxies
       /\ \A i \in 1..MaxChannels : <<b, i>> \notin reg_log
       /\ \A p \in Paths : channel_map[p] = NoChannel \/ channel_map[p][1] # b
       /\ replies[b] = (IF calls[b].dbus_context THEN <<"return">> ELSE <<>>)

C5_Witness ==
  \E b \in Batches :
    /\ Called(b) /\ ValidArgs(b) /\ calls[b].account_ignored
    /\ calls[b].globally_enabled /\ calls[b].dbus_context
    /\ ~calls[b].no_channels
    /\ replies[b] = <<"return">>

\* C6: a call without a reply slot never produces a reply, on any exit; its
\* successfully prepared channels are registered all the same, and its context
\* is freed exactly when the completion callbacks have brought the counter to
\* zero.
C6_NoReplyWithoutSlot ==
  \A b \in Batches :
    (Called(b) /\ ~calls[b].dbus_context) =>
       /\ replies[b] = <<>>
       /\ \A i \in Prepared(b) :
            /\ <<b, i>> \in reg_log
            /\ channel_map[calls[b].channels[i].path] # NoChannel
       /\ (observing_ctx[b].alloc = "freed") <=>
            (/\ calls[b].exit = "dispatched"
             /\ ~calls[b].no_channels
             /\ observing_ctx[b].chan_n = 0)
       /\ observing_ctx[b].alloc = "freed" => Pending(b) = {}

C6_Witness ==
  \E b \in Batches :
    /\ calls[b].exit = "dispatched" /\ ~calls[b].dbus_context
    /\ Len(prep[b]) >= 2
    /\ Prepared(b) # {} /\ Prepared(b) # 1..Len(prep[b])
    /\ observing_ctx[b].alloc = "freed"
    /\ replies[b] = <<>>

\* C7 as claimed: a channel of a batch is registered only once nothing of the
\* batch is outstanding, the counter is 0 and the reply, if any, is produced.
C7_RegisteredOnlyAfterBatch ==
  \A r \in reg_log :
    /\ Pending(r[1]) = {}
    /\ observing_ctx[r[1]].chan_n = 0
    /\ calls[r[1]].dbus_context => replies[r[1]] # <<>>

\* C7 as amended: each successfully prepared channel is registered in its own
\* completion callback, which may be while siblings are outstanding; a reply
\* of a dispatched batch is produced only when the counter is 0 and nothing is
\* outstanding, and by then every successfully prepared channel of the batch
\* is registered and found under its path.
C7_RegisteredBeforeReply ==
  \A b \in Batches :
    /\ \A i \in 1..Len(prep[b]) : (prep[b][i] = "ok") <=> (<<b, i>> \in reg_log)
    /\ \A i \in Prepared(b) : channel_map[calls[b].channels[i].path] # NoChannel
    /\ (calls[b].exit = "dispatched" /\ replies[b] # <<>>) =>
          /\ observing_ctx[b].chan_n = 0
          /\ Pending(b) = {}

C7_Witness ==
  \E b \in Batches :
    /\ calls[b].exit = "dispatched"
    /\ Len(prep[b]) >= 2
    /\ prep[b][1] = "pending"
    /\ prep[b][2] = "ok"
    /\ channel_map[calls[b].channels[2].path] = <<b, 2>>
    /\ replies[b] = <<>>

(* ------------------------------------------------------------------------ *)
(* Properties of the connection manager's introspection                     *)
(* ------------------------------------------------------------------------ *)
Emitted(s) == {s.emitted[k] : k \in 1..Len(s.emitted)}
Signals(s) == {s.emitted[k][1] : k \in 1..Len(s.emitted)}
IntrospectionErrors == {NAME_OWNER_LOST, GETALL_FAILED}

\* C8: a handler that ends a live introspection with an error (the GetAll
\* failed, or the name lost its owner) while info_source was File or Live
\* reports core prepared and not failed, and leaves info_source and the
\* committed protocols as they were; and once core has been reported
\* prepared, no handler reports it failed.
C8_FailureSuppressed ==
  [][ /\ (cm'.ended \in IntrospectionErrors /\
          cm.info_source \in {TP_CM_INFO_SOURCE_FILE, TP_CM_INFO_SOURCE_LIVE}) =>
            /\ "core-prepared" \in Signals(cm')
            /\ "core-failed" \notin Signals(cm')
            /\ cm'.info_source = cm.info_source
            /\ cm'.protocol_objects = cm.protocol_objects
      /\ cm.core_prepared => "core-failed" \notin Signals(cm')
    ]_vars

C8_Witness ==
  /\ cm.ended = GETALL_FAILED
  /\ cm.info_source = TP_CM_INFO_SOURCE_FILE
  /\ cm.protocol_objects = Table(FileProtocols)
  /\ "core-prepared" \in Signals(cm)

\* C9: a handler that ends a live introspection with an error while
\* info_source was None reports core failed with that error and not prepared,
\* and leaves info_source None and no protocols committed.
C9_FailurePropagated ==
  [][ (cm'.ended \in IntrospectionErrors /\
       cm.info_source = TP_CM_INFO_SOURCE_NONE) =>
         /\ <<"core-failed", cm'.ended>> \in Emitted(cm')
         /\ "core-prepared" \notin Signals(cm')
         /\ cm'.info_source = TP_CM_INFO_SOURCE_NONE
         /\ cm'.protocol_objects = NoTable
    ]_vars

C9_Witness ==
  /\ cm.ended = GETALL_FAILED
  /\ cm.info_source = TP_CM_INFO_SOURCE_NONE
  /\ <<"core-failed", GETALL_FAILED>> \in Emitted(cm)
  /\ ~cm.core_prepared

\* C10: no handler lowers info_source.
C10_InfoSourceNeverDecreases ==
  [][cm'.info_source >= cm.info_source]_vars

\* what a successful GetAll reply commits: the valid names of its Protocols
\* entry, or nothing when the entry is missing
ReplyTable(reply) ==
  IF reply.protocols = NoTable THEN NoTable
  ELSE Table({n \in reply.protocols[1] :
                tp_connection_manager_check_valid_protocol_name(n)})

\* C11: between handlers the scratch set found_protocols is absent; a handler
\* that ends a live introspection with an error leaves the committed set
\* protocol_objects as it was; one that ends it with success is the GetAll
\* callback and commits exactly the set built from its reply, nothing of the
\* old set; and the committed set changes in no handler other than that one
\* and the deferred file read.
C11_WholesaleSwap ==
  [][ /\ cm.found_protocols = NoTable
      /\ cm'.found_protocols = NoTable
      /\ cm'.ended \in IntrospectionErrors =>
            cm'.protocol_objects = cm.protocol_objects
      /\ cm'.ended = "success" =>
            /\ cm'.handler[1] = "get_all_cb"
            /\ cm'.protocol_objects = ReplyTable(cm'.handler[2])
      /\ cm'.protocol_objects # cm.protocol_objects =>
            \/ cm'.ended = "success"
            \/ cm'.handler[1] = "idle_read_manager_file"
    ]_vars

\* a live introspection has replaced the protocols of the .manager file
C11_Witness ==
  /\ cm.ended = "success"
  /\ FileInterfaces \subseteq cm.interfaces
  /\ cm.protocol_objects = Table({<<"j">>})
  /\ cm.found_protocols = NoTable

OwnerLost(s) ==
  s.handler[1] = "name_owner_changed_cb" /\ s.handler[2] = ""

\* C12: a notification that the name has no owner, arriving while a GetAll
\* call is in flight, ends the introspection with the name-owner-lost error:
\* the step is Idle again, the call is cancelled and no reply is left to be
\* delivered, core is reported failed with that error if info_source was
\* None and prepared otherwise. The same notification with nothing in flight
\* ends no introspection and reports nothing about core. The GetAll callback
\* runs only for a call that is still in flight.
C12_OwnerLostAborts ==
  [][ /\ OwnerLost(cm') =>
           IF cm.introspection_call
           THEN /\ cm'.ended = NAME_OWNER_LOST
                /\ cm'.introspection_step = "INTROSPECT_IDLE"
                /\ ~cm'.introspection_call
                /\ cm'.bus_calls = 0
                /\ IF cm.info_source = TP_CM_INFO_SOURCE_NONE
                   THEN /\ <<"core-failed", NAME_OWNER_LOST>> \in Emitted(cm')
                        /\ "core-prepared" \notin Signals(cm')
                   ELSE /\ "core-prepared" \in Signals(cm')
                        /\ "core-failed" \notin Signals(cm')
           ELSE /\ cm'.ended = "none"
                /\ cm'.bus_calls = cm.bus_calls
                /\ Signals(cm') \subseteq {"exited"}
      /\ cm'.handler[1] = "get_all_cb" =>
           cm.introspection_call /\ cm.bus_calls = 1
    ]_vars

C12_Witness ==
  /\ OwnerLost(cm)
  /\ cm.ended = NAME_OWNER_LOST
  /\ cm.introspection_step = "INTROSPECT_IDLE"
  /\ cm.bus_calls = 0
  /\ <<"core-failed", NAME_OWNER_LOST>> \in Emitted(cm)

\* C13: the first name-owner notification (the ownership state was not known
\* before it) emits no "exited", and if it reports the name as unowned it
\* leaves running FALSE; a name-owner notification emits "exited" only if
\* the ownership state was known before it.
C13_NoExitedOnInitialNotification ==
  [][ cm'.handler[1] = "name_owner_changed_cb" =>
        /\ ~cm.name_known =>
             /\ "exited" \notin Signals(cm')
             /\ cm'.handler[2] = "" => ~cm'.running
        /\ "exited" \in Signals(cm') => cm.name_known
        /\ cm'.name_known
    ]_vars

\* the first notification reported the name as unowned
C13_Witness ==
  /\ OwnerLost(cm)
  /\ cm.emitted = <<>>
  /\ cm.name_known
  /\ ~cm.running
  /\ cm.manager_file_read_idle_id

\* C14: a name-owner notification that reports an owner while running was
\* FALSE emits "activated", sets running and queues the introspection idle
\* callback without issuing a call itself; and when that callback runs with always_introspect set, it
\* issues a GetAll call whatever info_source is, unless one is already in
\* flight, in which case it issues none.
C14_ActivatedThenIntrospect ==
  [][ /\ (cm'.handler[1] = "name_owner_changed_cb" /\ cm'.handler[2] # ""
          /\ ~cm.running) =>
            /\ "activated" \in Signals(cm')
            /\ "exited" \notin Signals(cm')
            /\ cm'.running
            /\ cm'.introspect_idle_id
            /\ cm'.bus_calls = cm.bus_calls
      /\ (cm'.handler[1] = "idle_introspect" /\ cm.always_introspect) =>
            /\ cm'.introspection_call
            /\ cm'.introspection_step = "INTROSPECT_GETTING_PROPERTIES"
            /\ cm'.bus_calls = 1
            /\ cm'.info_source = cm.info_source
            /\ ~cm'.introspect_idle_id
    ]_vars

\* the idle callback has issued a GetAll call although the .manager file had
\* been read
C14_Witness ==
  /\ cm.handler[1] = "idle_introspect"
  /\ cm.running
  /\ cm.always_introspect
  /\ cm.info_source = TP_CM_INFO_SOURCE_FILE
  /\ cm.introspection_call
  /\ cm.bus_calls = 1

\* C15: when the deferred file read runs with no protocol set committed and
\* a .manager file that exists and parses, it commits the file's protocols,
\* sets info_source to File and reports core prepared, ending no
\* introspection; and a GetAll reply that succeeds while info_source is File
\* commits the reply's protocols in their place and sets info_source to Live.
C15_FileThenLive ==
  [][ /\ (cm'.handler[1] = "idle_read_manager_file"
          /\ cm.protocol_objects = NoTable /\ cm.manager_file = GoodFile) =>
            /\ cm'.protocol_objects = Table(FileProtocols)
            /\ cm'.info_source = TP_CM_INFO_SOURCE_FILE
            /\ FileInterfaces \subseteq cm'.interfaces
            /\ "core-prepared" \in Signals(cm')
            /\ "core-failed" \notin Signals(cm')
            /\ cm'.core_prepared
            /\ cm'.bus_calls = cm.bus_calls
      /\ (cm'.ended = "success" /\ cm.info_source = TP_CM_INFO_SOURCE_FILE) =>
            /\ cm'.info_source = TP_CM_INFO_SOURCE_LIVE
            /\ cm'.protocol_objects = ReplyTable(cm'.handler[2])
            /\ <<"notify::info-source", "LIVE">> \in Emitted(cm')
    ]_vars

\* the file has just been read and committed
C15_Witness ==
  /\ cm.handler[1] = "idle_read_manager_file"
  /\ cm.info_source = TP_CM_INFO_SOURCE_FILE
  /\ cm.protocol_objects = Table(FileProtocols)
  /\ "core-prepared" \in Signals(cm)

NoUsableFile == {NULL, "", BadFile}

\* C16: when the deferred file read runs with info_source None, no protocol
\* set committed and a .manager file that is missing, has an empty name or
\* does not parse, it reports nothing about core, leaves info_source None
\* and nothing committed, and a live introspection is on its way afterwards:
\* if the introspection idle callback is queued it stays queued and no call
\* is issued or cancelled, otherwise a GetAll call is in flight. Core is
\* reported failed only by a handler that ends a live introspection with an
\* error, and with that error.
C16_MissingFileFallsBackToLive ==
  [][ /\ (cm'.handler[1] = "idle_read_manager_file"
          /\ cm.info_source = TP_CM_INFO_SOURCE_NONE
          /\ cm.protocol_objects = NoTable
          /\ cm.manager_file \in NoUsableFile) =>
            /\ Signals(cm') = {}
            /\ cm'.info_source = TP_CM_INFO_SOURCE_NONE
            /\ cm'.protocol_objects = NoTable
            /\ IF cm.introspect_idle_id
               THEN /\ cm'.introspect_idle_id
                    /\ cm'.bus_calls = cm.bus_calls
                    /\ cm'.introspection_call = cm.introspection_call
               ELSE /\ cm'.introspection_call
                    /\ cm'.bus_calls = 1
      /\ "core-failed" \in Signals(cm') =>
            /\ cm'.ended \in IntrospectionErrors
            /\ <<"core-failed", cm'.ended>> \in Emitted(cm')
    ]_vars

\* an unparseable file made the deferred read start the live introspection
C16_Witness ==
  /\ cm.handler[1] = "idle_read_manager_file"
  /\ cm.manager_file = BadFile
  /\ cm.info_source = TP_CM_INFO_SOURCE_NONE
  /\ cm.introspection_call
  /\ cm.emitted = <<>>

\* C17: while an activate call has returned TRUE and neither "activated" nor
\* "exited" has been emitted since, the introspection idle callback leaves a
\* GetAll call in flight: the call whose delivery starts the connection
\* manager and whose outcome ends the attempt with "activated" or "exited".
C17_ActivationAttemptProceeds ==
  [][ (cm'.handler[1] = "idle_introspect" /\ cm.activating) =>
         cm'.introspection_call
    ]_vars

\* the state of the connection manager without the record of the last handler
Core(s) ==
  [s EXCEPT !.emitted = <<>>, !.ended = "none", !.ret = "none",
            !.handler = <<>>]

\* C18: tp_connection_manager_activate emits nothing; it returns FALSE
\* exactly when the name-owner state is known and running is TRUE, and then
\* changes nothing; otherwise it returns TRUE, having queued the
\* introspection idle callback if the name-owner state is known, and having
\* set want_activation and queued nothing if it is not. The first name-owner
\* notification, if want_activation is set and the name is unowned, queues
\* the introspection idle callback.
C18_ActivateReturn ==
  [][ /\ cm'.handler[1] = "activate" =>
           /\ cm'.ret = (IF cm.name_known /\ cm.running THEN "FALSE" ELSE "TRUE")
           /\ cm'.emitted = <<>>
           /\ cm'.bus_calls = cm.bus_calls
           /\ cm'.ret = "FALSE" => Core(cm') = Core(cm)
           /\ (cm.name_known /\ ~cm.running) => cm'.introspect_idle_id
           /\ ~cm.name_known =>
                /\ cm'.want_activation
                /\ cm'.introspect_idle_id = cm.introspect_idle_id
      /\ (cm'.handler[1] = "name_owner_changed_cb" /\ ~cm.name_known
          /\ cm.want_activation) =>
           /\ cm'.name_known
           /\ cm'.introspect_idle_id
    ]_vars

\* the request made before the name-owner state was known has been acted on
\* by the first notification
C18_Witness ==
  /\ OwnerLost(cm)
  /\ cm.emitted = <<>>
  /\ cm.want_activation
  /\ cm.activating
  /\ cm.introspect_idle_id

(* ------------------------------------------------------------------------ *)
(* Properties of tp_list_connection_managers_async                          *)
(* ------------------------------------------------------------------------ *)
\* nothing of the operation is left to happen
ListOpOver ==
  /\ list_op.called
  /\ ~list_op.live
  /\ list_op.pending_call = "none"
  /\ list_op.preparing = {}

\* C19: the result of tp_list_connection_managers_async is completed at most
\* once, and once the operation is over (its context is freed and neither a
\* name-listing call nor a prepare is outstanding) it has been completed
\* exactly once.
C19_CompletedExactlyOnce ==
  /\ Len(list_op.result.outcomes) <= 1
  /\ ListOpOver => Len(list_op.result.outcomes) = 1

(* ------------------------------------------------------------------------ *)
(* Properties of the debug message queue                                    *)
(* ------------------------------------------------------------------------ *)
Min(a, b) == IF a < b THEN a ELSE b

\* C20: after n tp_debug_sender_add_message calls the queue holds
\* min(n, 800) messages, never more than 800, and they are the last
\* min(n, 800) messages added in the order they were added (the k-th call
\* carries the time k); get_messages returns them in that order.
C20_QueueBounded ==
  LET q == debug_sender.messages
      n == debug_sender.added
  IN /\ Len(q) <= 800
     /\ Len(q) = Min(n, 800)
     /\ \A k \in 1..Len(q) : q[k].timestamp = n - Len(q) + k
     /\ debug_sender.handler = "get_messages" => debug_sender.out = q

\* the 801st message has evicted the first
C20_Witness ==
  /\ debug_sender.added = 801
  /\ Len(debug_sender.messages) = 800
  /\ debug_sender.messages[1].timestamp = 2
  /\ debug_sender.messages[800].timestamp = 801

\* C21: tp_debug_sender_add_message leaves the message it was given at the
\* tail of the queue whatever enabled is, does not change enabled, and emits
\* NewDebugMessage, once and for that message, if enabled was TRUE when it
\* was called, and nothing if it was FALSE.
C21_AppendAlwaysEmitIfEnabled ==
  [][ debug_sender'.handler = "add_message" =>
        LET q == debug_sender'.messages
        IN /\ debug_sender'.added = debug_sender.added + 1
           /\ Len(q) > 0
           /\ q[Len(q)] = [timestamp |-> debug_sender'.added,
                           domain |-> "domain",
                           level |-> TP_DEBUG_LEVEL_DEBUG,
                           string |-> "string"]
           /\ debug_sender'.enabled = debug_sender.enabled
           /\ debug_sender'.out =
                (IF debug_sender.enabled THEN <<q[Len(q)]>> ELSE <<>>)
    ]_vars

\* the second message was added while enabled was TRUE, and announced
C21_Witness ==
  /\ debug_sender.handler = "add_message"
  /\ debug_sender.enabled
  /\ debug_sender.added = 2
  /\ Len(debug_sender.messages) = 2
  /\ debug_sender.out = <<debug_sender.messages[2]>>

(* ------------------------------------------------------------------------ *)
(* Properties of the log handler and of the debug sender's instance         *)
(* ------------------------------------------------------------------------ *)
\* the handler that ran last handed its message to tp_debug_sender_add_message
Forwarded(before, after) == after.added = before.added + 1

\* C22: tp_debug_sender_log_handler forwards the message to the debug sender
\* exactly when an instance exists and the log domain is not the excluded
\* one, a NULL exclude excluding nothing.
C22_ForwardedUnlessExcluded ==
  [][ debug_sender'.handler = "log_handler" =>
        (Forwarded(debug_sender, debug_sender') <=>
           /\ debug_sender.exists
           /\ \/ debug_sender'.args[2] = NULL
              \/ debug_sender'.args[1] # debug_sender'.args[2])
    ]_vars

\* C23: a caller that holds a reference has an instance that exists; a
\* tp_debug_sender_dup call made while an instance exists returns that
\* instance with one more reference, constructs none and leaves its queue
\* and its enabled property alone; a call made while none exists constructs
\* one and returns it.
C23_DupReturnsSameInstance ==
  [][ /\ debug_sender'.held > 0 => debug_sender'.exists
      /\ debug_sender'.handler = "dup" =>
           IF debug_sender.exists
           THEN /\ debug_sender'.ret = debug_sender.constructed
                /\ debug_sender'.constructed = debug_sender.constructed
                /\ debug_sender'.ref_count = debug_sender.ref_count + 1
                /\ debug_sender'.messages = debug_sender.messages
                /\ debug_sender'.enabled = debug_sender.enabled
           ELSE /\ debug_sender'.constructed = debug_sender.constructed + 1
                /\ debug_sender'.ret = debug_sender'.constructed
                /\ debug_sender'.exists
      /\ debug_sender'.handler # "dup" =>
           debug_sender'.constructed = debug_sender.constructed
    ]_vars

\* a second reference to the one instance has been handed out, after the
\* instance had taken a message
C23_Witness ==
  /\ debug_sender.handler = "dup"
  /\ debug_sender.held = 2
  /\ debug_sender.constructed = 1
  /\ debug_sender.ret = 1
  /\ Len(debug_sender.messages) = 1

(* ------------------------------------------------------------------------ *)
(* Properties of the registry of observed channels                          *)
(* ------------------------------------------------------------------------ *)
\* C30: tpl_observer_unregister_channel returns TRUE, removes the entry and
\* notifies "registered-channels" exactly when the channel's path is
\* registered at the call; otherwise it returns FALSE, leaves the map as it is
\* and notifies nothing.  Every successful register or unregister sends exactly
\* one notification.
C30_UnregisterIffRegistered ==
  [][/\ (prep' = prep /\ ncalls' = ncalls) =>
          LET path == registry_out'.path
              was == channel_map[path] # NoChannel
          IN /\ registry_out'.op = "unregister"
             /\ registry_out'.ret = was
             /\ was => /\ channel_map' = [channel_map EXCEPT ![path] = NoChannel]
                       /\ registry_out'.notified = 1
             /\ ~was => /\ channel_map' = channel_map
                        /\ registry_out'.notified = 0
     /\ reg_log' # reg_log =>
          /\ registry_out'.op = "register"
          /\ registry_out'.ret
          /\ registry_out'.notified = 1
          /\ channel_map'[registry_out'.path] # NoChannel]_vars

\* a registered channel has been unregistered
C30_Witness ==
  /\ registry_out.op = "unregister"
  /\ registry_out.ret
  /\ registry_out.notified = 1
  /\ reg_log # {}
  /\ channel_map[registry_out.path] = NoChannel

(* ------------------------------------------------------------------------ *)
(* Properties of the text channel and of the readiness of its features      *)
(* ------------------------------------------------------------------------ *)
\* C24: the pending-messages feature is reported prepared only after the
\* initial PendingMessages value has been fetched and both MessageReceived
\* and PendingMessagesRemoved have been connected; on every other path it is
\* reported failed or not at all.
C24_PreparedOnlyAfterFetchAndConnect ==
  text_channel.state[TP_TEXT_CHANNEL_FEATURE_PENDING_MESSAGES] = "Prepared" =>
    /\ text_channel.fetched
    /\ text_channel.message_received_connected
    /\ text_channel.pending_messages_removed_connected

\* C25: tp_text_channel_set_chat_state_finish, on the result of a
\* tp_text_channel_set_chat_state_async call on the same channel, returns TRUE
\* exactly when the SetChatState call succeeded, and FALSE with the call's
\* error otherwise.
C25_FinishReturnsCallOutcome ==
  text_channel.chat.finish # "none" =>
    /\ (text_channel.chat.finish = "TRUE") <=> (text_channel.chat.error = NoError)
    /\ text_channel.chat.finish = "FALSE" =>
         text_channel.chat.finish_error = text_channel.chat.error

\* C26: the start operation of a feature is invoked at most once per proxy,
\* however many prepare calls request the feature; in particular
\* tp_text_channel_prepare_pending_messages runs at most once per text channel.
C26_StartAtMostOnce ==
  \A f \in Features : text_channel.starts[f] <= 1

\* two prepare calls have asked for the pending messages, and the feature's
\* start has run
C26_Witness ==
  /\ text_channel.starts[TP_TEXT_CHANNEL_FEATURE_PENDING_MESSAGES] = 1
  /\ Len(text_channel.waiters) >= 2
  /\ \A k \in 1..Len(text_channel.waiters) :
       TP_TEXT_CHANNEL_FEATURE_PENDING_MESSAGES \in text_channel.waiters[k].requested

\* the identifiers of the entries of a sequence of waiters
Ids(ws) == {ws[k].id : k \in 1..Len(ws)}

\* every prepare call so far is either still waiting or has fired, once
EachWaiterOnce(p) ==
  /\ Len(p.waiters) + Len(p.fired) = p.nprepare
  /\ Ids(p.waiters) \cup Ids(p.fired) = 1..p.nprepare

\* a waiter is queued exactly while a feature it asked for is being prepared,
\* and a fired one succeeded iff all it asked for is Prepared
FiredWhenResolved(p) ==
  /\ \A k \in 1..Len(p.waiters) : ~Resolved(p, p.waiters[k])
  /\ \A k \in 1..Len(p.fired) :
       LET w == p.fired[k]
       IN \/ p.invalidated # NoError /\ w.error = p.invalidated
          \/ /\ Resolved(p, w)
             /\ (w.error = NoError) <=>
                  (\A f \in w.requested : p.state[f] = "Prepared")

\* C27: each registered waiter's continuation fires exactly once, when every
\* feature it requested has left Preparing, with success iff all of them are
\* Prepared; waiters that resolve at the same transition are released in
\* registration order, and none is invoked twice or dropped.
C27_WaitersFireOnceInOrder ==
  [][/\ EachWaiterOnce(text_channel')
     /\ FiredWhenResolved(text_channel')
     /\ Len(text_channel'.fired) >= Len(text_channel.fired)
     /\ SubSeq(text_channel'.fired, 1, Len(text_channel.fired)) = text_channel.fired
     /\ \A j, k \in (Len(text_channel.fired) + 1)..Len(text_channel'.fired) :
          j < k => text_channel'.fired[j].id < text_channel'.fired[k].id]_vars

\* the reply to the Get of PendingMessages has just released two waiters
C27_Witness ==
  /\ text_channel.handler[1] = "get_pending_messages_cb"
  /\ text_channel.invalidated = NoError
  /\ text_channel.fetched
  /\ Len(text_channel.fired) >= 2
  /\ \A k \in 1..2 :
       /\ text_channel.fired[k].requested = {TP_TEXT_CHANNEL_FEATURE_PENDING_MESSAGES}
       /\ text_channel.fired[k].error = NoError

\* C28: once a proxy is invalidated, every pending prepare call and every
\* later prepare call on it resolves immediately with the invalidated error,
\* and a start operation that completes afterwards does not change the proxy's
\* state; a text channel that is not of type Text or lacks the Messages
\* interface is invalidated at construction.
C28_InvalidatedResolvesAll ==
  [][LET p == text_channel
         q == text_channel'
         new == SubSeq(q.fired, Len(p.fired) + 1, Len(q.fired))
     IN /\ (~q.channel_type_text \/ ~q.has_messages) => q.invalidated # NoError
        /\ (~p.channel_type_text \/ ~p.has_messages) => p.invalidated # NoError
        /\ q.invalidated # NoError => q.waiters = <<>>
        /\ (p.invalidated = NoError /\ q.invalidated # NoError) =>
             /\ Ids(new) = Ids(p.waiters)
             /\ \A k \in 1..Len(new) : new[k].error = q.invalidated
        /\ p.invalidated # NoError =>
             /\ q.invalidated = p.invalidated
             /\ q.state = p.state
             /\ q.starts = p.starts
             /\ Len(new) = q.nprepare - p.nprepare
             /\ \A k \in 1..Len(new) : new[k].error = p.invalidated]_vars

\* on a channel invalidated with a prepare call pending, which was resolved
\* with the error, the Get of PendingMessages has completed
C28_Witness ==
  /\ text_channel.handler[1] = "get_pending_messages_cb"
  /\ text_channel.invalidated = "channel closed"
  /\ text_channel.state[TP_TEXT_CHANNEL_FEATURE_PENDING_MESSAGES] = "Preparing"
  /\ \E k \in 1..Len(text_channel.fired) :
       text_channel.fired[k].error = "channel closed"

(* ------------------------------------------------------------------------ *)
(* Properties of ObserveChannels on a registered observer client            *)
(* ------------------------------------------------------------------------ *)
\* how many entries of the sequence belong to the call
Occurrences(s, id) == Cardinality({k \in 1..Len(s) : s[k].id = id})

\* the replies sent so far, delivered or not
Replies(t) == t.delivered \o t.returns

C31_OneQueryOutstanding ==
  /\ cm.bus_calls <= 1
  /\ cm.bus_calls > 0 =>
       /\ cm.introspection_step = "INTROSPECT_GETTING_PROPERTIES"
       /\ cm.introspection_call
  /\ cm.aborted \notin {"get_all_cb: step == INTROSPECT_GETTING_PROPERTIES",
                        "get_all_cb: introspection_call != NULL"}

\* a query is outstanding again after an earlier one was answered, with an
\* idle introspection queued on top of it
C31_Witness ==
  /\ cm.bus_calls = 1
  /\ cm.info_source = TP_CM_INFO_SOURCE_LIVE
  /\ cm.introspect_idle_id
  /\ cm.always_introspect

\* C32: in every reachable state info_source != NONE implies that a committed
\* protocol table exists (possibly empty), whatever a successful GetAll reply
\* carried, so the assertion in tp_connection_manager_dup_protocol_names
\* never fails.
C32_CommittedTableExists ==
  /\ cm.info_source # TP_CM_INFO_SOURCE_NONE => cm.protocol_objects # NoTable
  /\ tp_connection_manager_dup_protocol_names(cm).aborted = ""

\* a protocol set has been committed: from the file, or by a live
\* introspection that completed
Committed(s) ==
  s.protocol_objects # NoTable \/ s.info_source = TP_CM_INFO_SOURCE_LIVE

\* C33: a deferred cache-file read that runs when a protocol set is already
\* committed changes nothing: committed protocols, info_source and feature
\* state are unchanged, nothing is emitted and no introspection is started,
\* so a live result that completed first is never overwritten by the file.
C33_LateFileReadChangesNothing ==
  [][(cm'.handler[1] = "idle_read_manager_file" /\ Committed(cm)) =>
       /\ cm'.protocol_objects = cm.protocol_objects
       /\ cm'.info_source = cm.info_source
       /\ cm'.core_prepared = cm.core_prepared
       /\ cm'.interfaces = cm.interfaces
       /\ cm'.emitted = <<>>
       /\ cm'.bus_calls = cm.bus_calls
       /\ cm'.introspection_step = cm.introspection_step]_vars

\* C34: a change of the name's owner to another owner while the connection
\* manager is running is handled as an exit followed by a restart: an
\* in-flight introspection is aborted, then "exited" is emitted, then
\* "activated", in that order; running ends TRUE and an introspection is
\* scheduled.
C34_OwnerChangeIsExitThenRestart ==
  [][(/\ cm.running
      /\ cm'.handler[1] = "name_owner_changed_cb"
      /\ cm'.handler[2] # "") =>
       LET e == cm'.emitted
           n == Len(e)
           in_flight == cm.introspection_call \/ cm.found_protocols # NoTable
       IN /\ n >= 2
          /\ e[n - 1] = <<"exited", "">>
          /\ e[n] = <<"activated", "">>
          /\ \A k \in 1..(n - 2) : e[k][1] \notin {"exited", "activated"}
          /\ cm'.running
          /\ cm'.introspect_idle_id
          /\ ~in_flight => n = 2
          /\ in_flight =>
               /\ e[1][1] = "got-info"
               /\ cm'.ended = NAME_OWNER_LOST
               /\ cm'.bus_calls = 0
               /\ ~cm'.introspection_call
               /\ cm'.found_protocols = NoTable
               /\ cm'.introspection_step = "INTROSPECT_IDLE"]_vars

\* the owner changed while a GetAll call was outstanding
C34_Witness ==
  /\ cm.handler[1] = "name_owner_changed_cb"
  /\ cm.handler[2] # ""
  /\ cm.ended = NAME_OWNER_LOST
  /\ Len(cm.emitted) >= 3
  /\ cm.emitted[Len(cm.emitted)] = <<"activated", "">>
  /\ cm.emitted[Len(cm.emitted) - 1] = <<"exited", "">>
  /\ cm.running

(* ------------------------------------------------------------------------ *)
(* Further properties of the dispatch barrier                               *)
(* ------------------------------------------------------------------------ *)
\* C35: in every reachable state of a dispatch batch the context's remaining
\* counter equals the number of channels of the batch whose preparation has
\* been started and has not yet settled; it is 0 exactly when no preparation
\* is outstanding, never underflows, and the context is freed exactly once,
\* when the last preparation settles.
C35_CounterIsOutstandingPreparations ==
  \A b \in Batches :
    calls[b].exit = "dispatched" =>
      /\ observing_ctx[b].chan_n = Cardinality(Pending(b))
      /\ observing_ctx[b].chan_n # G_MAXUINT
      /\ (observing_ctx[b].alloc = "freed") <=> (Pending(b) = {})

(* ------------------------------------------------------------------------ *)
(* Properties of the pending messages                                       *)
(* ------------------------------------------------------------------------ *)
\* how many entries of a sequence of messages have the identifier
Copies(msgs, id) == Cardinality({k \in 1..Len(msgs) : msgs[k].id = id})

\* each message of the service is in the pending list, or on its way there
\* with its sender's contact, exactly once
EachMessageOnce(p) ==
  /\ Len(p.pending_messages) + Len(p.contact_requests) = Len(p.service_pending)
  /\ \A k \in 1..Len(p.service_pending) :
       Copies(p.pending_messages, p.service_pending[k].id)
         + Copies(p.contact_requests, p.service_pending[k].id) = 1

\* C36: a MessageReceived signal delivered while the initial PendingMessages
\* fetch is outstanding is neither appended to the pending list nor announced
\* by message-received; the fetch reply holding every message signalled
\* before it, after successful preparation each unacknowledged message is in
\* the pending list exactly once.
C36_NoDuplicateNoLoss ==
  [][/\ (text_channel.retrieving_pending
         /\ text_channel'.handler[1] = "message_received_cb") =>
          /\ text_channel'.pending_messages = text_channel.pending_messages
          /\ text_channel'.announced = text_channel.announced
          /\ text_channel'.contact_requests = text_channel.contact_requests
     /\ (text_channel'.state[TP_TEXT_CHANNEL_FEATURE_PENDING_MESSAGES] = "Prepared"
         /\ text_channel'.invalidated = NoError) =>
          EachMessageOnce(text_channel')]_vars

====
